---------------------------- MODULE Spec2Model ----------------------------
(***************************************************************************)
(* Model of the intent merge engine of iptecharch/data-server.             *)
(*                                                                         *)
(*  Spec      the SetIntent transaction of one datastore, called by        *)
(*            several concurrent RPC handlers (part_000,                   *)
(*            intent_rpc_set_update.go)                                    *)
(*  SpecLeaf  the LeafVariants functions applied to arbitrary variant      *)
(*            lists (yang-parser-adapter.go, second file of the dump)      *)
(*  SpecTree  the tree: insertion, owner deletion, delete aggregation,     *)
(*            precedence and mandatory validation (entry.go)               *)
(***************************************************************************)
EXTENDS Integers, Sequences, FiniteSets, TLC

VARIABLES
    \* ---- Datastore (Spec) ------------------------------------------------
    intentMutex,       \* d.intentMutex: TRUE while locked
    pc,                \* per handler: position inside SetIntent
    req,               \* per handler: the SetIntentRequest
    candidateName,     \* per handler: local candidateName of SetIntent
    err,               \* per handler: the error SetIntent returned
    ops,               \* per handler: external calls issued by the current call
    validationErrors,  \* per handler: local slice of SetIntentUpdate
    validateOut,       \* per handler: errors root.Validate still has to send
    validateAll,       \* per handler: all errors root.Validate reports in this call
    hasDeltas,         \* per handler: len(updates)+len(deletes) > 0 of the tree
    candidates,        \* cache: the candidates that exist
    intentsStore,      \* cache: keys of the INTENTS store
    \* ---- LeafVariants (SpecLeaf) -----------------------------------------
    lv,                \* a LeafVariants slice
    lvResult,          \* results of the functions applied to lv
    \* ---- Tree (SpecTree) -------------------------------------------------
    childs,            \* the set of entries of the tree, each named by its path
    leafVariants,      \* per entry: its LeafVariants slice
    phase,             \* idle | insertion | resolved | finished | validated | panic
    steps,             \* number of tree operations performed
    treeResult,        \* results of the queries on the tree
    storeIndex,        \* the index of the intended store: path, owner, priority
    dsSchema,          \* the schema the datastore is configured with
    choicesResolvers,  \* per entry and choice: the best and the old best case
    \* ---- Navigate (SpecNavigate) -----------------------------------------
    navResult,         \* the last Navigate call and what it returned
    \* ---- Raw intents (SpecRaw) --------------------------------------------
    rawStore,          \* the INTENTS store of the cache: entries of key and value
    rawOut,            \* the last GetIntent or ListIntent call and its response
    rawLast,           \* history: per intent name and priority, the updates of the last
                       \* SetIntent that succeeded, "none" at first and after a delete
    \* ---- ncTarget (SpecTarget) --------------------------------------------
    ncTarget,          \* the ncTarget t: connected, driver, m (TRUE while locked)
    call,              \* the call of Get, Set or internalSync in progress
    reconnects,        \* the goroutines running t.reconnect: waiting for m, in the loop
    syncCh,            \* the messages the internalSync in progress has sent on syncCh
    \* ---- readIntendedStoreKeysMeta (SpecKeys) ------------------------------
    entryCh,           \* the keys of the intended store still to come on the channel
    keysResult,        \* the map from index key to the entries read so far
    keysPc,            \* "reading" until the channel is closed, then "returned"
    \* ---- the intended store of one owner (SpecIntended) --------------------
    intended,          \* the INTENDED store of the cache: a set of Updates
    ownerReq,          \* the SetIntent request in progress or last succeeded
    ownerTree,         \* per leaf path, the leaf variants of the tree being built
    pending,           \* the cache entries or request updates still to be added
    intendedPc         \* "idle", "load" or "add"

dsVars == <<intentMutex, pc, req, candidateName, err, ops, validationErrors,
            validateOut, validateAll, hasDeltas, candidates, intentsStore>>
leafVars == <<lv, lvResult>>
treeVars == <<childs, leafVariants, phase, steps, treeResult, storeIndex,
              dsSchema, choicesResolvers>>
navVars == <<navResult>>
rawVars == <<rawStore, rawOut, rawLast>>
ncVars == <<ncTarget, call, reconnects, syncCh>>
keysVars == <<entryCh, keysResult, keysPc>>
intendedVars == <<intended, ownerReq, ownerTree, pending, intendedPc>>
vars == <<dsVars, leafVars, treeVars, navVars, rawVars, ncVars, keysVars, intendedVars>>

(***************************************************************************)
(* Bounds                                                                  *)
(***************************************************************************)
\* values time.Now().UnixNano() can take
MaxTime == 1
\* number of errors one run of root.Validate can report
MaxErrors == 2

Handlers == {"h1", "h2"}
Intents == {"A"}
Priorities == {5, 10}
Times == 1..MaxTime
ErrorKinds == {"mandatory", "leafref"}

\* sequences over S of length at most n
SeqsUpTo(S, n) == UNION {[1..k -> S] : k \in 0..n}

\* a SetIntentRequest: update stands for len(req.GetUpdate()) > 0
Requests == [intent : Intents, priority : Priorities, update : BOOLEAN, delete : BOOLEAN]

NoReq == [intent |-> "", priority |-> 0, update |-> FALSE, delete |-> FALSE]
NoName == <<"", 0>>
NoErr == [code |-> "nil", errs |-> <<>>]

Error(code) == [code |-> code, errs |-> <<>>]

(***************************************************************************)
(* Datastore.SetIntent and Datastore.SetIntentUpdate                       *)
(***************************************************************************)
\* one external call of the current SetIntent, with its argument and outcome
Op(name, arg, ok) == [op |-> name, arg |-> arg, ok |-> ok]

\* mutant: a lock attempt whose result is ignored
TryLock_Ignored(m) == TRUE

\* sync.Mutex.TryLock on a mutex whose state is m: TRUE when it acquires
TryLock(m) == ~m

\* fmt.Sprintf("%s-%d", req.GetIntent(), now)
CandidateName(intent, now) == <<intent, now>>

\* fmt.Sprintf("%s%s%s%d", rawIntentPrefix, name, intentRawNameSep, pr)
rawIntentName(name, pr) == <<"__raw_intent__", name, "_", pr>>

\* mutant: the Unlock is not deferred and the error return skips it
SetIntentDispatch_NoUnlock(ok, r) ==
    IF ~ok THEN "returned"
    ELSE IF r.update THEN "populateTree"
    ELSE IF r.delete THEN "SetIntentDelete"
    ELSE "deferDeleteCandidate"

\* mutant: the delete flag is looked at before the updates
SetIntentDispatch_DeleteFirst(ok, r) ==
    IF ~ok THEN "deferUnlock"
    ELSE IF r.delete THEN "SetIntentDelete"
    ELSE IF r.update THEN "populateTree"
    ELSE "deferDeleteCandidate"

\* SetIntent after CreateCandidate returned: the next statement.  When
\* CreateCandidate failed only the Unlock is deferred.
SetIntentDispatch(ok, r) ==
    IF ~ok THEN "deferUnlock"
    ELSE IF r.update THEN "populateTree"
    ELSE IF r.delete THEN "SetIntentDelete"
    ELSE "deferDeleteCandidate"

\* mutant: the candidate is deleted at the end of the success path only
SetIntentUpdateNext_NoDeferredDelete(at, ok) ==
    IF ~ok THEN "deferUnlock"
    ELSE CASE at = "populateTree" -> "convertUpdates"
           [] at = "convertUpdates" -> "Validate"
           [] at = "Validate" -> "convertDeletes"
           [] at = "convertDeletes" -> "setCandidate"
           [] at = "setCandidate" -> "applyIntent"
           [] at = "applyIntent" -> "ModifyIntended"
           [] at = "ModifyIntended" -> "ModifyConfig"
           [] at = "ModifyConfig" -> "rawIntent"
           [] at = "rawIntent" -> "deferDeleteCandidate"

\* mutant: the error of applyIntent is logged and the stores are written
SetIntentUpdateNext_ApplyErrorIgnored(at, ok) ==
    IF ~ok /\ at # "applyIntent" THEN "deferDeleteCandidate"
    ELSE CASE at = "populateTree" -> "convertUpdates"
           [] at = "convertUpdates" -> "Validate"
           [] at = "Validate" -> "convertDeletes"
           [] at = "convertDeletes" -> "setCandidate"
           [] at = "setCandidate" -> "applyIntent"
           [] at = "applyIntent" -> "ModifyIntended"
           [] at = "ModifyIntended" -> "ModifyConfig"
           [] at = "ModifyConfig" -> "rawIntent"
           [] at = "rawIntent" -> "deferDeleteCandidate"

\* mutant: a cache write that fails is followed by a second request to the
\* device
SetIntentUpdateNext_Compensates(at, ok) ==
    IF ~ok
        THEN IF at \in {"ModifyIntended", "ModifyConfig", "rawIntent"} THEN "sbiSet"
             ELSE "deferDeleteCandidate"
    ELSE CASE at = "populateTree" -> "convertUpdates"
           [] at = "convertUpdates" -> "Validate"
           [] at = "Validate" -> "convertDeletes"
           [] at = "convertDeletes" -> "setCandidate"
           [] at = "setCandidate" -> "applyIntent"
           [] at = "applyIntent" -> "ModifyIntended"
           [] at = "ModifyIntended" -> "ModifyConfig"
           [] at = "ModifyConfig" -> "rawIntent"
           [] at = "rawIntent" -> "deferDeleteCandidate"

\* mutant: the config store is written before the intended store
SetIntentUpdateNext_ConfigFirst(at, ok) ==
    IF ~ok THEN "deferDeleteCandidate"
    ELSE CASE at = "populateTree" -> "convertUpdates"
           [] at = "convertUpdates" -> "Validate"
           [] at = "Validate" -> "convertDeletes"
           [] at = "convertDeletes" -> "setCandidate"
           [] at = "setCandidate" -> "applyIntent"
           [] at = "applyIntent" -> "ModifyConfig"
           [] at = "ModifyConfig" -> "ModifyIntended"
           [] at = "ModifyIntended" -> "rawIntent"
           [] at = "rawIntent" -> "deferDeleteCandidate"

\* SetIntentUpdate: the statement that follows statement `at`, which ended
\* with ok; every error is returned at once, which runs SetIntent's defers.
SetIntentUpdateNext(at, ok) ==
    IF ~ok THEN "deferDeleteCandidate"
    ELSE CASE at = "populateTree" -> "convertUpdates"
           [] at = "convertUpdates" -> "Validate"
           [] at = "Validate" -> "convertDeletes"
           [] at = "convertDeletes" -> "setCandidate"
           [] at = "setCandidate" -> "applyIntent"
           [] at = "applyIntent" -> "ModifyIntended"
           [] at = "ModifyIntended" -> "ModifyConfig"
           [] at = "ModifyConfig" -> "rawIntent"
           [] at = "rawIntent" -> "deferDeleteCandidate"

\* applyIntent: after the must and leafref validation of the updates the set
\* request is sent only if there are updates and/or deletes.
applyIntentSends(deltas) == deltas

\* mutant: only the first validation error is returned
CumulatedError_First(errors) ==
    IF Len(errors) > 0 THEN [code |-> "validation", errs |-> <<errors[1]>>] ELSE NoErr

\* the error SetIntentUpdate returns once the validation channel is closed
\* ("nil" when the slice is empty): the errors joined into one
CumulatedError(errors) ==
    IF Len(errors) > 0 THEN [code |-> "validation", errs |-> errors] ELSE NoErr

Goto(h, to) == pc' = [pc EXCEPT ![h] = to]
Log(h, o) == ops' = [ops EXCEPT ![h] = Append(@, o)]
Fail(h, ok, code) == err' = IF ok THEN err ELSE [err EXCEPT ![h] = Error(code)]

InitDs ==
    /\ intentMutex = FALSE
    /\ pc = [h \in Handlers |-> "idle"]
    /\ req = [h \in Handlers |-> NoReq]
    /\ candidateName = [h \in Handlers |-> NoName]
    /\ err = [h \in Handlers |-> NoErr]
    /\ ops = [h \in Handlers |-> <<>>]
    /\ validationErrors = [h \in Handlers |-> <<>>]
    /\ validateOut = [h \in Handlers |-> <<>>]
    /\ validateAll = [h \in Handlers |-> <<>>]
    /\ hasDeltas = [h \in Handlers |-> FALSE]
    /\ candidates = {}
    /\ intentsStore = {}

\* A SetIntent RPC arrives at handler h: TryLock, then the candidate name.
SetIntent(h) ==
    /\ pc[h] \in {"idle", "returned"}
    /\ \E r \in Requests, now \in Times :
         /\ IF TryLock(intentMutex)
              THEN /\ intentMutex' = TRUE
                   /\ req' = [req EXCEPT ![h] = r]
                   /\ candidateName' = [candidateName EXCEPT ![h] = CandidateName(r.intent, now)]
                   /\ err' = [err EXCEPT ![h] = NoErr]
                   /\ Goto(h, "CreateCandidate")
              ELSE /\ err' = [err EXCEPT ![h] = Error("ResourceExhausted")]
                   /\ Goto(h, "returned")
                   /\ UNCHANGED <<intentMutex, req, candidateName>>
    /\ UNCHANGED <<ops, validationErrors, validateOut, validateAll, hasDeltas,
                   candidates, intentsStore>>

CreateCandidate(h) ==
    /\ pc[h] = "CreateCandidate"
    /\ \E ok \in BOOLEAN :
         /\ Log(h, Op("CreateCandidate", candidateName[h], ok))
         /\ candidates' = IF ok THEN candidates \cup {candidateName[h]} ELSE candidates
         /\ Fail(h, ok, "CreateCandidate")
         /\ Goto(h, SetIntentDispatch(ok, req[h]))
    /\ UNCHANGED <<intentMutex, req, candidateName, validationErrors, validateOut,
                   validateAll, hasDeltas, intentsStore>>

\* SetIntentDelete is not part of the sources: one call that succeeds or fails.
SetIntentDelete(h) ==
    /\ pc[h] = "SetIntentDelete"
    /\ \E ok \in BOOLEAN :
         /\ Log(h, Op("SetIntentDelete", candidateName[h], ok))
         /\ Fail(h, ok, "SetIntentDelete")
         /\ Goto(h, "deferDeleteCandidate")
    /\ UNCHANGED <<intentMutex, req, candidateName, validationErrors, validateOut,
                   validateAll, hasDeltas, candidates, intentsStore>>

\* populateTree, then FinishInsertionPhase, GetHighestPrecedence(true) and
\* GetDeletes on the tree it built
PopulateTree(h) ==
    /\ pc[h] = "populateTree"
    /\ \E ok \in BOOLEAN :
         /\ Log(h, Op("populateTree", NoName, ok))
         /\ Fail(h, ok, "populateTree")
         /\ Goto(h, SetIntentUpdateNext("populateTree", ok))
    /\ UNCHANGED <<intentMutex, req, candidateName, validationErrors, validateOut,
                   validateAll, hasDeltas, candidates, intentsStore>>

\* cacheUpdateToUpdate of every update; on success the validation goroutine
\* starts, with the errors root.Validate is going to send.
ConvertUpdates(h) ==
    /\ pc[h] = "convertUpdates"
    /\ \E ok \in BOOLEAN, errors \in SeqsUpTo(ErrorKinds, MaxErrors) :
         /\ validateAll' = [validateAll EXCEPT ![h] = IF ok THEN errors ELSE <<>>]
         /\ validateOut' = [validateOut EXCEPT ![h] = IF ok THEN errors ELSE <<>>]
         /\ Fail(h, ok, "cacheUpdateToUpdate")
         /\ Goto(h, SetIntentUpdateNext("convertUpdates", ok))
    /\ UNCHANGED <<intentMutex, req, candidateName, ops, validationErrors,
                   hasDeltas, candidates, intentsStore>>

\* one error passes the unbuffered validationErrChan
ValidateReceive(h) ==
    /\ pc[h] = "Validate"
    /\ validateOut[h] # <<>>
    /\ validationErrors' = [validationErrors EXCEPT ![h] = Append(@, Head(validateOut[h]))]
    /\ validateOut' = [validateOut EXCEPT ![h] = Tail(@)]
    /\ UNCHANGED <<intentMutex, pc, req, candidateName, err, ops, validateAll,
                   hasDeltas, candidates, intentsStore>>

\* the channel is closed: the range loop ends and the errors are checked
ValidateClosed(h) ==
    /\ pc[h] = "Validate"
    /\ validateOut[h] = <<>>
    /\ LET e == CumulatedError(validationErrors[h]) IN
         /\ err' = [err EXCEPT ![h] = e]
         /\ Goto(h, SetIntentUpdateNext("Validate", e = NoErr))
    /\ UNCHANGED <<intentMutex, req, candidateName, ops, validationErrors, validateOut,
                   validateAll, hasDeltas, candidates, intentsStore>>

ConvertDeletes(h) ==
    /\ pc[h] = "convertDeletes"
    /\ \E ok \in BOOLEAN :
         /\ Fail(h, ok, "cacheUpdateToUpdate")
         /\ Goto(h, SetIntentUpdateNext("convertDeletes", ok))
    /\ UNCHANGED <<intentMutex, req, candidateName, ops, validationErrors, validateOut,
                   validateAll, hasDeltas, candidates, intentsStore>>

SetCandidate(h) ==
    /\ pc[h] = "setCandidate"
    /\ \E ok \in BOOLEAN :
         /\ Log(h, Op("setCandidate", candidateName[h], ok))
         /\ Fail(h, ok, "setCandidate")
         /\ Goto(h, SetIntentUpdateNext("setCandidate", ok))
    /\ UNCHANGED <<intentMutex, req, candidateName, validationErrors, validateOut,
                   validateAll, hasDeltas, candidates, intentsStore>>

\* applyIntent up to the push: validateMustStatement and validateLeafRef of
\* the updates; the tree decided how many updates and deletes there are
ApplyIntent(h) ==
    /\ pc[h] = "applyIntent"
    /\ \E ok \in BOOLEAN, deltas \in BOOLEAN :
         /\ hasDeltas' = [hasDeltas EXCEPT ![h] = ok /\ deltas]
         /\ Fail(h, ok, "applyIntent")
         /\ Goto(h, IF ok /\ applyIntentSends(deltas) THEN "sbiSet"
                    ELSE SetIntentUpdateNext("applyIntent", ok))
    /\ UNCHANGED <<intentMutex, req, candidateName, ops, validationErrors, validateOut,
                   validateAll, candidates, intentsStore>>

\* d.sbi.Set inside applyIntent
SbiSet(h) ==
    /\ pc[h] = "sbiSet"
    /\ \E ok \in BOOLEAN :
         /\ Log(h, Op("sbi.Set", candidateName[h], ok))
         /\ Fail(h, ok, "applyIntent")
         /\ Goto(h, SetIntentUpdateNext("applyIntent", ok))
    /\ UNCHANGED <<intentMutex, req, candidateName, validationErrors, validateOut,
                   validateAll, hasDeltas, candidates, intentsStore>>

ModifyIntended(h) ==
    /\ pc[h] = "ModifyIntended"
    /\ \E ok \in BOOLEAN :
         /\ Log(h, Op("Modify INTENDED", NoName, ok))
         /\ Fail(h, ok, "ModifyIntended")
         /\ Goto(h, SetIntentUpdateNext("ModifyIntended", ok))
    /\ UNCHANGED <<intentMutex, req, candidateName, validationErrors, validateOut,
                   validateAll, hasDeltas, candidates, intentsStore>>

ModifyConfig(h) ==
    /\ pc[h] = "ModifyConfig"
    /\ \E ok \in BOOLEAN :
         /\ Log(h, Op("Modify CONFIG", NoName, ok))
         /\ Fail(h, ok, "ModifyConfig")
         /\ Goto(h, SetIntentUpdateNext("ModifyConfig", ok))
    /\ UNCHANGED <<intentMutex, req, candidateName, validationErrors, validateOut,
                   validateAll, hasDeltas, candidates, intentsStore>>

\* switch req.Delete: deleteRawIntent or saveRawIntent
RawIntent(h) ==
    /\ pc[h] = "rawIntent"
    /\ \E ok \in BOOLEAN :
         LET rin == rawIntentName(req[h].intent, req[h].priority) IN
         /\ Log(h, Op("Modify INTENTS", NoName, ok))
         /\ intentsStore' = IF ~ok THEN intentsStore
                            ELSE IF req[h].delete THEN intentsStore \ {rin}
                            ELSE intentsStore \cup {rin}
         /\ Fail(h, ok, "rawIntent")
         /\ Goto(h, SetIntentUpdateNext("rawIntent", ok))
    /\ UNCHANGED <<intentMutex, req, candidateName, validationErrors, validateOut,
                   validateAll, hasDeltas, candidates>>

\* the deferred func of SetIntent: a failure is logged only
DeferDeleteCandidate(h) ==
    /\ pc[h] = "deferDeleteCandidate"
    /\ \E ok \in BOOLEAN :
         /\ Log(h, Op("DeleteCandidate", candidateName[h], ok))
         /\ candidates' = IF ok THEN candidates \ {candidateName[h]} ELSE candidates
    /\ Goto(h, "deferUnlock")
    /\ UNCHANGED <<intentMutex, req, candidateName, err, validationErrors, validateOut,
                   validateAll, hasDeltas, intentsStore>>

\* defer d.intentMutex.Unlock(), then the call returns: its locals are gone,
\* the caller holds the response
DeferUnlock(h) ==
    /\ pc[h] = "deferUnlock"
    /\ intentMutex' = FALSE
    /\ Goto(h, "returned")
    /\ req' = [req EXCEPT ![h] = NoReq]
    /\ ops' = [ops EXCEPT ![h] = <<>>]
    /\ candidateName' = [candidateName EXCEPT ![h] = NoName]
    /\ validationErrors' = [validationErrors EXCEPT ![h] = <<>>]
    /\ validateAll' = [validateAll EXCEPT ![h] = <<>>]
    /\ hasDeltas' = [hasDeltas EXCEPT ![h] = FALSE]
    /\ UNCHANGED <<err, validateOut, candidates, intentsStore>>

(***************************************************************************)
(* LeafVariants                                                            *)
(***************************************************************************)
\* most variants on one leaf in SpecLeaf
MaxVariants == 3

\* the reserved owner of the device's running config
RunningIntentName == "running"

\* priorities of the variants of one leaf
LeafPriorities == {5, 10, 15}
\* owners of the variants; A, B and C are intents
LeafOwners == {"A", "B", "C", RunningIntentName}

\* a LeafEntry: the cache.Update (owner, priority, value, path) and the flags
LeafEntry(owner, priority, value, path, del, new, upd) ==
    [owner |-> owner, priority |-> priority, value |-> value, path |-> path,
     Delete |-> del, IsNew |-> new, IsUpdated |-> upd]

\* mutant: the variant of the running config is treated like any other
shouldDelete_RunningCounts(l) ==
    IF Len(l) = 0 THEN FALSE
    ELSE \A i \in DOMAIN l : l[i].Delete

\* LeafVariants.shouldDelete
shouldDelete(l) ==
    IF Len(l) = 0 THEN FALSE
    ELSE IF l[1].owner = RunningIntentName /\ Len(l) = 1 THEN FALSE
    ELSE \A i \in DOMAIN l : l[i].Delete \/ l[i].owner = RunningIntentName

\* The loop of LeafVariants.GetHighestPrecedence from element i on: the
\* indices of highest and secondHighest (0 is nil).
\* mutant: the second highest variant is not tracked
RECURSIVE ScanHighest_NoSecond(_, _, _, _)
ScanHighest_NoSecond(l, i, highest, secondHighest) ==
    IF i > Len(l) THEN <<highest, 0>>
    ELSE IF highest = 0 THEN ScanHighest_NoSecond(l, i + 1, i, 0)
    ELSE IF l[highest].priority > l[i].priority
        THEN ScanHighest_NoSecond(l, i + 1, i, 0)
    ELSE ScanHighest_NoSecond(l, i + 1, highest, 0)

\* mutant: a variant of equal priority replaces the highest
RECURSIVE ScanHighest_LaterWins(_, _, _, _)
ScanHighest_LaterWins(l, i, highest, secondHighest) ==
    IF i > Len(l) THEN <<highest, secondHighest>>
    ELSE IF highest = 0 THEN ScanHighest_LaterWins(l, i + 1, i, secondHighest)
    ELSE IF l[highest].priority >= l[i].priority
        THEN ScanHighest_LaterWins(l, i + 1, i, highest)
    ELSE IF secondHighest = 0 \/ l[secondHighest].priority > l[i].priority
        THEN ScanHighest_LaterWins(l, i + 1, highest, i)
    ELSE ScanHighest_LaterWins(l, i + 1, highest, secondHighest)

RECURSIVE ScanHighest(_, _, _, _)
ScanHighest(l, i, highest, secondHighest) ==
    IF i > Len(l) THEN <<highest, secondHighest>>
    ELSE IF highest = 0 THEN ScanHighest(l, i + 1, i, secondHighest)
    ELSE IF l[highest].priority > l[i].priority
        THEN ScanHighest(l, i + 1, i, highest)
    ELSE IF secondHighest = 0 \/ l[secondHighest].priority > l[i].priority
        THEN ScanHighest(l, i + 1, highest, i)
    ELSE ScanHighest(l, i + 1, highest, secondHighest)

\* mutant: shouldDelete is not asked
GetHighestPrecedence_NoShouldDelete(l, onlyIfPrioChanged) ==
    IF Len(l) = 0 THEN 0
    ELSE LET hs == ScanHighest(l, 1, 0, 0)
             highest == hs[1]
             secondHighest == hs[2]
         IN  IF ~onlyIfPrioChanged
                 THEN IF ~l[highest].Delete THEN highest ELSE secondHighest
             ELSE IF ~l[highest].Delete
                 THEN IF l[highest].IsNew \/ l[highest].IsUpdated THEN highest ELSE 0
             ELSE IF secondHighest # 0 /\ ~l[secondHighest].Delete THEN secondHighest
             ELSE 0

\* mutant: an unchanged highest variant is returned as well
GetHighestPrecedence_Unchanged(l, onlyIfPrioChanged) ==
    IF Len(l) = 0 THEN 0
    ELSE IF shouldDelete(l) THEN 0
    ELSE LET hs == ScanHighest(l, 1, 0, 0)
             highest == hs[1]
             secondHighest == hs[2]
         IN  IF ~onlyIfPrioChanged
                 THEN IF ~l[highest].Delete THEN highest ELSE secondHighest
             ELSE IF ~l[highest].Delete THEN highest
             ELSE IF secondHighest # 0 /\ ~l[secondHighest].Delete THEN secondHighest
             ELSE 0

\* LeafVariants.GetHighestPrecedence: the index of the returned LeafEntry in
\* l, 0 for nil
GetHighestPrecedence(l, onlyIfPrioChanged) ==
    IF Len(l) = 0 THEN 0
    ELSE IF shouldDelete(l) THEN 0
    ELSE LET hs == ScanHighest(l, 1, 0, 0)
             highest == hs[1]
             secondHighest == hs[2]
         IN  IF ~onlyIfPrioChanged
                 THEN IF ~l[highest].Delete THEN highest ELSE secondHighest
             ELSE IF ~l[highest].Delete
                 THEN IF l[highest].IsNew \/ l[highest].IsUpdated THEN highest ELSE 0
             ELSE IF secondHighest # 0 /\ ~l[secondHighest].Delete THEN secondHighest
             ELSE 0

\* LeafVariants.GetHighestPrecedenceValue
GetHighestPrecedenceValue(l) ==
    LET live == {l[i].priority : i \in {j \in DOMAIN l : ~l[j].Delete}}
    IN  IF live = {} THEN 2147483647
        ELSE CHOOSE m \in live : \A n \in live : m <= n

\* The variant lists of SpecLeaf: at most one variant per owner; the intents
\* are interchangeable, so they appear in the order A, B, C.
IntentRank(o) == CASE o = "A" -> 1 [] o = "B" -> 2 [] o = "C" -> 3 [] OTHER -> 0
OwnerLists ==
    {os \in SeqsUpTo(LeafOwners, MaxVariants) :
        /\ \A i, j \in DOMAIN os : i < j => os[i] # os[j]
        /\ \A i, j \in DOMAIN os :
              (i < j /\ IntentRank(os[i]) > 0 /\ IntentRank(os[j]) > 0)
                  => IntentRank(os[i]) < IntentRank(os[j])
        /\ \A i \in DOMAIN os :
              IntentRank(os[i]) > 1 =>
                  \E j \in DOMAIN os : IntentRank(os[j]) = IntentRank(os[i]) - 1}
LeafPath == <<"interface", "eth0", "mtu">>
VariantFlags == [priority : LeafPriorities, Delete : BOOLEAN, IsNew : BOOLEAN,
                 IsUpdated : BOOLEAN]
VariantsOf(os) ==
    {[i \in DOMAIN os |->
         LeafEntry(os[i], f[i].priority, 1, LeafPath, f[i].Delete, f[i].IsNew,
                   f[i].IsUpdated)] : f \in [DOMAIN os -> VariantFlags]}

NoResult == [done |-> FALSE, highest |-> 0, changed |-> 0, del |-> FALSE]

InitLeaf ==
    /\ \E os \in OwnerLists : lv \in VariantsOf(os)
    /\ lvResult = NoResult

\* the three functions are applied to the list
QueryLeaf ==
    /\ ~lvResult.done
    /\ lvResult' = [done |-> TRUE,
                    highest |-> GetHighestPrecedence(lv, FALSE),
                    changed |-> GetHighestPrecedence(lv, TRUE),
                    del |-> shouldDelete(lv)]
    /\ UNCHANGED lv

InitLeafIdle == lv = <<>> /\ lvResult = NoResult
(***************************************************************************)
(* The tree of entries                                                     *)
(***************************************************************************)
\* most InsertUpdate and MarkOwnerDelete calls on one tree
MaxSteps == 3

Name == <<"interface", "eth0", "name">>
Mtu == <<"interface", "eth0", "mtu">>
Hostname == <<"sys", "hostname">>
Location == <<"sys", "location">>
LeafPaths == {Name, Mtu, Hostname, Location}
Sys == <<"sys">>
Eth0 == <<"interface", "eth0">>
Cont == <<"cont">>
X == <<"cont", "x">>
Y == <<"cont", "y">>
\* the leaves of the container with the choice
ChoiceLeafPaths == {X, Y}
\* paths of updates that no schema check has passed: a value on the
\* container sys and a value on the list entry eth0
UncheckedLeafPaths == {Sys, Hostname, Eth0, Mtu}
\* the paths of the updates under each schema
PathsOf(name) ==
    CASE name = "list" -> LeafPaths
      [] name = "choice" -> ChoiceLeafPaths
      [] name = "unchecked" -> UncheckedLeafPaths
      [] OTHER -> {}
Prefixes(path) == {SubSeq(path, 1, k) : k \in 0..Len(path)}
NodePaths == UNION {Prefixes(path) : path \in LeafPaths \cup ChoiceLeafPaths}
Parent(path) == SubSeq(path, 1, Len(path) - 1)

\* the intent of the transaction (TreeContext.GetActualOwner); A is another
\* intent
ActualOwner == "B"
TreeOwners == {"A", ActualOwner, RunningIntentName}
TreeValues == {1500, 9000}
\* the priority of each owner's updates
OwnerPriority(o) == CASE o = "A" -> 10 [] o = ActualOwner -> 5 [] OTHER -> 15
\* a cache.Update
Update(path, value, priority, owner) ==
    [path |-> path, value |-> value, priority |-> priority, owner |-> owner]
\* the updates inserted: what the stores hold of A and of the running config
\* has one value per leaf, the intent of the transaction has had one value
\* and can bring another
ValuesOf(o) == IF o = ActualOwner THEN TreeValues ELSE {1500}
Updates ==
    UNION {{Update(path, v, OwnerPriority(o), o) :
               path \in LeafPaths \cup ChoiceLeafPaths \cup UncheckedLeafPaths,
               v \in ValuesOf(o)} : o \in TreeOwners}
\* only the updates of the request are inserted as new
IsNewFlags(c) == IF c.owner = ActualOwner THEN BOOLEAN ELSE {FALSE}

\* the schema elements
NilSchema ==
    [kind |-> "nil", keys |-> <<>>, MandatoryChildren |-> <<>>,
     IsPresence |-> FALSE, ChoiceInfo |-> <<>>]
Container(keys, mandatory) ==
    [kind |-> "container", keys |-> keys, MandatoryChildren |-> mandatory,
     IsPresence |-> FALSE, ChoiceInfo |-> <<>>]
Field ==
    [kind |-> "field", keys |-> <<>>, MandatoryChildren |-> <<>>,
     IsPresence |-> FALSE, ChoiceInfo |-> <<>>]
\* a container with choices: per choice the element names of each case
ChoiceContainer(choices) ==
    [kind |-> "container", keys |-> <<>>, MandatoryChildren |-> <<>>,
     IsPresence |-> FALSE, ChoiceInfo |-> choices]

\* the answer of the schema service for the path of an entry: a list
\* interface with the key name and the mandatory child mtu, a container sys
\* with the mandatory child hostname, a container cont with the choice c of
\* caseA {x} and caseB {y}
GetSchema(path) ==
    CASE path = <<>> -> Container(<<>>, <<>>)
      [] path = Cont ->
             ChoiceContainer([c \in {"c"} |-> [caseA |-> {"x"}, caseB |-> {"y"}]])
      [] Len(path) = 2 /\ path[1] = "cont" -> Field
      [] path = <<"interface">> -> Container(<<"name">>, <<"mtu">>)
      [] path = <<"sys">> -> Container(<<>>, <<"hostname">>)
      [] Len(path) = 2 /\ path[1] = "sys" -> Field
      [] Len(path) = 3 /\ path[1] = "interface" -> Field
      [] OTHER -> NilSchema

\* the schema field of the entry at path, as newSharedEntryAttributes sets it,
\* and GetAncestorSchema: <<schema, levelUp>>
RECURSIVE NodeSchema(_), GetAncestorSchema(_)
GetAncestorSchema(path) ==
    IF NodeSchema(Parent(path)) # NilSchema THEN <<NodeSchema(Parent(path)), 1>>
    ELSE LET up == GetAncestorSchema(Parent(path))
         IN  <<up[1], up[2] + 1>>

NodeSchema(path) ==
    IF path = <<>> THEN GetSchema(path)
    ELSE LET up == GetAncestorSchema(path)
         IN  IF up[1].kind = "container" /\ Len(up[1].keys) >= up[2]
                 THEN NilSchema
             ELSE GetSchema(path)

\* s.childs of the entry at path
Children(path) == {c \in childs : Len(c) = Len(path) + 1 /\ Parent(c) = path}

\* LeafVariants.GetByOwner: the index of the owner's variant, 0 for nil
\* mutant: no variant of the owner is found
GetByOwner_NotFound(l, owner) == 0

GetByOwner(l, owner) ==
    IF \E i \in DOMAIN l : l[i].owner = owner
        THEN CHOOSE i \in DOMAIN l :
                 l[i].owner = owner /\ \A j \in 1..(i - 1) : l[j].owner # owner
    ELSE 0

NewLeafEntry(c, new) ==
    LeafEntry(c.owner, c.priority, c.value, c.path, FALSE, new, FALSE)
EqualSkipPath(le, c) ==
    le.owner = c.owner /\ le.priority = c.priority /\ le.value = c.value
MarkUpdate(le, c) ==
    [le EXCEPT !.value = c.value, !.priority = c.priority, !.owner = c.owner,
               !.path = c.path, !.IsUpdated = TRUE, !.Delete = FALSE]
MarkDelete(le) == [le EXCEPT !.Delete = TRUE]

\* mutant: an equal value is marked as an update as well
AddLeafEntry_EqualMarksUpdate(l, c, new) ==
    LET i == GetByOwner(l, c.owner)
    IN  IF i # 0
            THEN [l EXCEPT ![i] = MarkUpdate(l[i], c)]
        ELSE Append(l, NewLeafEntry(c, new))

\* mutant: an equal value leaves the delete flag as it is
AddLeafEntry_EqualKeepsDelete(l, c, new) ==
    LET i == GetByOwner(l, c.owner)
    IN  IF i # 0
            THEN IF EqualSkipPath(l[i], c) THEN l
                 ELSE [l EXCEPT ![i] = MarkUpdate(l[i], c)]
        ELSE Append(l, NewLeafEntry(c, new))

\* the end of the path in AddCacheUpdateRecursive
AddLeafEntry(l, c, new) ==
    LET i == GetByOwner(l, c.owner)
    IN  IF i # 0
            THEN IF EqualSkipPath(l[i], c) THEN [l EXCEPT ![i].Delete = FALSE]
                 ELSE [l EXCEPT ![i] = MarkUpdate(l[i], c)]
        ELSE Append(l, NewLeafEntry(c, new))

\* AddChild accepts a child of the entry at path
AddChild(path) ==
    Len(leafVariants[path]) > 0 => NodeSchema(path).kind = "container"

RECURSIVE ShouldDelete(_)
ShouldDelete(path) ==
    IF Len(leafVariants[path]) > 0 THEN shouldDelete(leafVariants[path])
    ELSE \A c \in Children(path) : ShouldDelete(c)

MaxInt32 == 2147483647
Min(a, b) == IF a < b THEN a ELSE b
MinOf(S) == IF S = {} THEN MaxInt32 ELSE CHOOSE m \in S : \A n \in S : m <= n

\* an entry of the index of the intended store
IndexEntry(path, owner, priority) ==
    [path |-> path, owner |-> owner, priority |-> priority]
IsPrefix(path, of) == Len(path) <= Len(of) /\ SubSeq(of, 1, Len(path)) = path

\* TreeContext.GetBranchesHighesPrecedence with the filter
\* CacheUpdateFilterExcludeOwner(owner)
GetBranchesHighesPrecedence(path, excluded) ==
    MinOf({e.priority : e \in {i \in storeIndex :
                                   IsPrefix(path, i.path) /\ i.owner # excluded}})

RECURSIVE GetHighestPrecedenceValueOfBranch(_)
GetHighestPrecedenceValueOfBranch(path) ==
    Min(MinOf({GetHighestPrecedenceValueOfBranch(c) : c \in Children(path)}),
        GetHighestPrecedenceValue(leafVariants[path]))

\* populateChoiceCaseResolvers: the value of an element from the index, read
\* for the path of the entry itself, and its value from the tree
OldValue(path, elem) == GetBranchesHighesPrecedence(path, ActualOwner)
NewValue(path, elem) ==
    IF Append(path, elem) \in Children(path)
        THEN GetHighestPrecedenceValueOfBranch(Append(path, elem))
    ELSE MaxInt32

\* the choice resolver: the precedence of a case from the index and
\* altogether, and the names getBestCaseName and getOldBestCaseName can
\* return ("" when no case has a value; any of the best on a tie)
CaseOld(path, cases, k) == MinOf({OldValue(path, el) : el \in cases[k]})
CaseNew(path, cases, k) == MinOf({NewValue(path, el) : el \in cases[k]})
BestCases(path, cases) ==
    LET prec(k) == Min(CaseOld(path, cases, k), CaseNew(path, cases, k))
        best == MinOf({prec(k) : k \in DOMAIN cases})
    IN  IF best = MaxInt32 THEN {""} ELSE {k \in DOMAIN cases : prec(k) = best}
OldBestCases(path, cases) ==
    LET best == MinOf({CaseOld(path, cases, k) : k \in DOMAIN cases})
    IN  IF best = MaxInt32 THEN {""}
        ELSE {k \in DOMAIN cases : CaseOld(path, cases, k) = best}

Resolver(best, old) == [bestCase |-> best, oldBestCase |-> old]
\* initChoiceCasesResolvers: no value is set
InitResolvers ==
    [path \in NodePaths |->
        [ch \in DOMAIN GetSchema(path).ChoiceInfo |-> Resolver("", "")]]
\* what populateChoiceCaseResolvers can leave in the resolvers of the entries
\* of the tree
ChoiceKeys ==
    {k \in NodePaths \X {"c"} : k[2] \in DOMAIN GetSchema(k[1]).ChoiceInfo}
CaseNames == {"", "caseA", "caseB"}
PopulatedResolvers ==
    {[path \in NodePaths |->
         [ch \in DOMAIN GetSchema(path).ChoiceInfo |->
             IF path \in childs THEN Resolver(f[<<path, ch>>][1], f[<<path, ch>>][2])
             ELSE choicesResolvers[path][ch]]] :
        f \in {g \in [ChoiceKeys -> CaseNames \X CaseNames] :
                  \A k \in ChoiceKeys :
                      /\ g[k][1] \in BestCases(k[1], GetSchema(k[1]).ChoiceInfo[k[2]])
                      /\ g[k][2] \in
                             OldBestCases(k[1], GetSchema(k[1]).ChoiceInfo[k[2]])}}

\* choiceCasesResolvers.GetSkipElements: the elements of the cases that are
\* not the best case
GetSkipElements(path) ==
    UNION {UNION {GetSchema(path).ChoiceInfo[ch][k] :
                     k \in DOMAIN GetSchema(path).ChoiceInfo[ch]
                            \ {choicesResolvers[path][ch].bestCase}} :
              ch \in DOMAIN choicesResolvers[path]}
\* mutant: no child is skipped
filterActiveChoiceCaseChilds_NoSkip(path) == Children(path)

filterActiveChoiceCaseChilds(path) ==
    IF NodeSchema(path) = NilSchema THEN Children(path)
    ELSE {c \in Children(path) : c[Len(c)] \notin GetSkipElements(path)}

\* mutant: the key attributes are never found to be deleted
IsDeleteKeyAttributesInLevelDown_Never(path, keyAttributes) == FALSE

\* IsDeleteKeyAttributesInLevelDown: doDelete
IsDeleteKeyAttributesInLevelDown(path, keyAttributes) ==
    \A i \in DOMAIN keyAttributes :
        LET c == Append(path, keyAttributes[i])
        IN  ~(c \in Children(path) /\ ~ShouldDelete(c))

\* GetDeletes on a container: the old best case of each choice that has
\* another best case now
ChoiceDeletes(path) ==
    IF NodeSchema(path).kind # "container" THEN {}
    ELSE {Append(path, choicesResolvers[path][ch].oldBestCase) :
             ch \in {n \in DOMAIN choicesResolvers[path] :
                        /\ choicesResolvers[path][n].oldBestCase # ""
                        /\ choicesResolvers[path][n].bestCase # ""
                        /\ choicesResolvers[path][n].oldBestCase
                               # choicesResolvers[path][n].bestCase}}

\* GetDeletes: the paths appended to deletes, as a set
RECURSIVE GetDeletes(_)
GetDeletes(path) ==
    LET up == IF path = <<>> THEN <<NilSchema, 0>> ELSE GetAncestorSchema(path)
    IN  IF /\ NodeSchema(path) = NilSchema
           /\ up[1].kind = "container"
           /\ up[2] = Len(up[1].keys)
            THEN IF IsDeleteKeyAttributesInLevelDown(path, up[1].keys) THEN {path}
                 ELSE UNION {GetDeletes(c) : c \in Children(path)}
        ELSE ChoiceDeletes(path)
                 \cup (IF shouldDelete(leafVariants[path])
                           THEN {leafVariants[path][1].path}
                       ELSE UNION {GetDeletes(c) : c \in Children(path)})

\* sharedEntryAttributes.GetHighestPrecedence: the cache.Updates of the branch
RECURSIVE EntryGetHighestPrecedence(_, _)
EntryGetHighestPrecedence(path, onlyNewOrUpdated) ==
    LET l == leafVariants[path]
        i == GetHighestPrecedence(l, onlyNewOrUpdated)
    IN  (IF i # 0
             THEN {Update(l[i].path, l[i].value, l[i].priority, l[i].owner)}
         ELSE {})
        \cup UNION {EntryGetHighestPrecedence(c, onlyNewOrUpdated) :
                       c \in filterActiveChoiceCaseChilds(path)}

\* TreeContext.PathExists: the path is in the index of the intended store
PathExists(path) == \E e \in storeIndex : e.path = path

MandatoryError(path, attribute) == [path |-> path, attribute |-> attribute]

\* ValidateMandatoryWithKeys and ValidateMandatory: the errors the call can
\* return, the empty set when it returns nil.  A loop over a map of childs
\* returns the error of the child it happens to visit first.
\* mutant: the index of the intended store is not consulted
RECURSIVE ValidateMandatoryWithKeys_NoIndex(_, _, _)
ValidateMandatoryWithKeys_NoIndex(path, level, attribute) ==
    IF level = 0
        THEN LET v == Append(path, attribute)
                 existsInTree == v \in filterActiveChoiceCaseChilds(path)
             IN  IF ~(existsInTree /\ ~ShouldDelete(v))
                     THEN {MandatoryError(path, attribute)}
                 ELSE {}
    ELSE UNION {ValidateMandatoryWithKeys_NoIndex(c, level - 1, attribute) :
                   c \in filterActiveChoiceCaseChilds(path)}

RECURSIVE ValidateMandatoryWithKeys(_, _, _)
ValidateMandatoryWithKeys(path, level, attribute) ==
    IF level = 0
        THEN LET v == Append(path, attribute)
                 existsInTree == v \in filterActiveChoiceCaseChilds(path)
             IN  IF ~(existsInTree /\ ~ShouldDelete(v)) /\ ~PathExists(v)
                     THEN {MandatoryError(path, attribute)}
                 ELSE {}
    ELSE UNION {ValidateMandatoryWithKeys(c, level - 1, attribute) :
                   c \in filterActiveChoiceCaseChilds(path)}

RECURSIVE ValidateMandatory(_)
ValidateMandatory(path) ==
    LET schema == NodeSchema(path)
        own(i) == ValidateMandatoryWithKeys(path, Len(schema.keys),
                                            schema.MandatoryChildren[i])
        failing == {i \in DOMAIN schema.MandatoryChildren : own(i) # {}}
    IN  IF schema.kind = "container" /\ failing # {}
            THEN own(CHOOSE i \in failing : \A j \in failing : i <= j)
        ELSE UNION {ValidateMandatory(c) : c \in Children(path)}

NoTreeResult == [updates |-> {}, deletes |-> {}, errors |-> {}]

InitTreeIdle ==
    /\ childs = {}
    /\ leafVariants = [path \in NodePaths |-> <<>>]
    /\ phase = "idle"
    /\ steps = 0
    /\ treeResult = NoTreeResult
    /\ storeIndex = {}
    /\ dsSchema = "none"
    /\ choicesResolvers = InitResolvers

\* NewTreeRoot; the index of the intended store holds /sys/hostname of
\* another owner or nothing
InitTree ==
    /\ childs = {<<>>}
    /\ leafVariants = [path \in NodePaths |-> <<>>]
    /\ phase = "insertion"
    /\ steps = 0
    /\ treeResult = NoTreeResult
    /\ choicesResolvers = InitResolvers
    /\ \/ /\ dsSchema = "list"
          /\ storeIndex \in {{}, {IndexEntry(Hostname, "A", 10)}}
       \/ /\ dsSchema = "choice"
          /\ storeIndex \in {{}, {IndexEntry(X, "A", 10)}}

\* RootEntry.AddCacheUpdateRecursive(c, new)
AddCacheUpdateRecursive(c, new) ==
    /\ phase = "insertion"
    /\ steps < MaxSteps
    /\ c.path \in PathsOf(dsSchema)
    /\ IF \A e \in Prefixes(c.path) \ childs : AddChild(Parent(e))
           THEN /\ childs' = childs \cup Prefixes(c.path)
                /\ leafVariants' =
                       [leafVariants EXCEPT ![c.path] = AddLeafEntry(@, c, new)]
                /\ UNCHANGED phase
       ELSE \* AddChild dereferences a nil schema
            /\ phase' = "panic"
            /\ UNCHANGED <<childs, leafVariants>>
    /\ steps' = steps + 1
    /\ UNCHANGED <<treeResult, storeIndex, dsSchema, choicesResolvers>>

\* RootEntry.MarkOwnerDelete(o)
MarkOwnerDelete(o) ==
    /\ phase = "insertion"
    /\ steps < MaxSteps
    /\ leafVariants' =
           [path \in NodePaths |->
               LET l == leafVariants[path]
                   i == GetByOwner(l, o)
               IN  IF path \in childs /\ i # 0
                       THEN [l EXCEPT ![i] = MarkDelete(l[i])]
                   ELSE l]
    /\ steps' = steps + 1
    /\ UNCHANGED <<childs, phase, treeResult, storeIndex, dsSchema, choicesResolvers>>

\* RootEntry.FinishInsertionPhase: the choice resolvers are populated
FinishInsertionPhase ==
    /\ phase = "insertion"
    /\ phase' = "resolved"
    /\ choicesResolvers' \in PopulatedResolvers
    /\ UNCHANGED <<childs, leafVariants, steps, storeIndex, dsSchema, treeResult>>

\* GetHighestPrecedence(true) and GetDeletes of the root
GetDeltas ==
    /\ phase = "resolved"
    /\ phase' = "finished"
    /\ treeResult' = [treeResult EXCEPT
                         !.updates = EntryGetHighestPrecedence(<<>>, TRUE),
                         !.deletes = GetDeletes(<<>>)]
    /\ UNCHANGED <<childs, leafVariants, steps, storeIndex, dsSchema,
                   choicesResolvers>>

\* ValidateMandatory of the root: the errors reported
ValidateMandatoryRoot ==
    /\ phase = "finished"
    /\ phase' = "validated"
    /\ \/ /\ ValidateMandatory(<<>>) = {}
          /\ UNCHANGED treeResult
       \/ \E e \in ValidateMandatory(<<>>) :
              treeResult' = [treeResult EXCEPT !.errors = {e}]
    /\ UNCHANGED <<childs, leafVariants, steps, storeIndex, dsSchema,
                   choicesResolvers>>

(***************************************************************************)
(* ncTarget: Get, Set, internalSync and reconnect                          *)
(***************************************************************************)
\* what a call of the NETCONF driver returns: nil, an error, or an error
\* whose text contains "EOF"
DriverResults == {"nil", "err", "EOF"}
\* strings.Contains(err.Error(), "EOF")
ContainsEOF(result) == result = "EOF"

\* the goroutines running reconnect at one time
MaxReconnects == 2
\* the driver returns an EOF error while the goroutines the call then starts
\* stay within MaxReconnects
MayStart(kind) ==
    reconnects.waiting + reconnects.running + (IF kind = "internalSync" THEN 2 ELSE 1)
        <= MaxReconnects

\* one call of the driver with what it returned
DriverCall(op, result) == [op |-> op, result |-> result]
\* t.driver.EditConfig("candidate", xdoc) with what it returned
EditCall(xml, result) == [op |-> "EditConfig", xml |-> xml, result |-> result]

\* mutant: the document of the updates is applied before that of the deletes
SetDocs_AddFirst(deletes, updates) ==
    <<[xml |-> "xmlCBAdd", data |-> updates], [xml |-> "xmlCBDelete", data |-> deletes]>>

\* []*netconf.XMLConfigBuilder{xmlCBDelete, xmlCBAdd}; data tells whether the
\* document of the builder holds anything
SetDocs(deletes, updates) ==
    <<[xml |-> "xmlCBDelete", data |-> deletes], [xml |-> "xmlCBAdd", data |-> updates]>>

\* no call in progress
NoCall == [kind |-> "none", pc |-> "idle", docs |-> <<>>, err |-> "nil", ops |-> <<>>]
\* the target is not created
InitTargetIdle ==
    /\ ncTarget = [connected |-> FALSE, driver |-> "nil", m |-> FALSE]
    /\ call = NoCall
    /\ reconnects = [waiting |-> 0, running |-> 0, created |-> FALSE]
    /\ syncCh = <<>>

\* mutant: the reconnect is awaited, the target is connected again when the
\* statement ends
OnEOF_Waits(tgt, rc) ==
    [ncTarget |-> [tgt EXCEPT !.driver = "alive", !.connected = TRUE], reconnects |-> rc]

\* t.Close(); t.connected = false; go t.reconnect()
OnEOF(tgt, rc) ==
    [ncTarget |-> [tgt EXCEPT
               !.driver = IF tgt.driver = "nil" THEN "nil" ELSE "closed",
               !.connected = FALSE],
     reconnects |-> [rc EXCEPT !.waiting = @ + 1]]

\* a call of Get, Set or internalSync starts; Get and Set return an error at
\* once when the target is not connected, internalSync returns
Begin(kind, docs) ==
    /\ call.pc = "idle"
    /\ call' = IF ~ncTarget.connected
                   THEN [kind |-> kind, pc |-> "returning", docs |-> docs,
                         err |-> IF kind = "internalSync" THEN "nil" ELSE "not connected",
                         ops |-> <<>>]
               ELSE [kind |-> kind, docs |-> docs, err |-> "nil", ops |-> <<>>,
                     pc |-> IF kind = "Set" THEN "EditConfig"
                            ELSE IF kind = "internalSync" THEN "ParsePath"
                            ELSE "GetConfig"]
    /\ syncCh' = <<>>
    /\ UNCHANGED <<ncTarget, reconnects>>
    /\ UNCHANGED <<dsVars, leafVars, treeVars, navVars, rawVars, keysVars, intendedVars>>

\* internalSync: utils.ParsePath of the configured paths, then the call of Get
\* with its own check of t.connected
ParsePath(ok) ==
    /\ call.pc = "ParsePath"
    /\ call' = IF ~ok THEN [call EXCEPT !.pc = "returning", !.err = "err"]
               ELSE IF ~ncTarget.connected
                   THEN [call EXCEPT !.pc = "got", !.err = "not connected"]
               ELSE [call EXCEPT !.pc = "GetConfig"]
    /\ UNCHANGED <<ncTarget, reconnects>>
    /\ UNCHANGED <<dsVars, leafVars, treeVars, navVars, rawVars, keysVars, intendedVars, syncCh>>

\* Get up to its return: building the filter can fail, then driver.GetConfig,
\* then the transformation of the response can fail
GetConfig(built, result, transformed) ==
    /\ call.pc = "GetConfig"
    /\ ContainsEOF(result) => MayStart(call.kind)
    /\ IF ~built
           THEN /\ call' = [call EXCEPT !.pc = "got", !.err = "err"]
                /\ UNCHANGED <<ncTarget, reconnects>>
       ELSE IF result # "nil"
           THEN /\ call' = [call EXCEPT
                               !.pc = "got", !.err = result,
                               !.ops = Append(@, DriverCall("GetConfig", result))]
                /\ IF ContainsEOF(result)
                       THEN /\ ncTarget' = OnEOF(ncTarget, reconnects).ncTarget
                            /\ reconnects' = OnEOF(ncTarget, reconnects).reconnects
                   ELSE UNCHANGED <<ncTarget, reconnects>>
       ELSE /\ call' = [call EXCEPT
                           !.pc = "got",
                           !.err = IF transformed THEN "nil" ELSE "err",
                           !.ops = Append(@, DriverCall("GetConfig", result))]
            /\ UNCHANGED <<ncTarget, reconnects>>
    /\ UNCHANGED <<dsVars, leafVars, treeVars, navVars, rawVars, keysVars, intendedVars, syncCh>>

\* Get returns; internalSync looks at the error of its Get
GetReturns ==
    /\ call.pc = "got"
    /\ call' = [call EXCEPT
                   !.pc = IF call.kind = "internalSync" /\ call.err = "nil" THEN "sync"
                          ELSE "returning"]
    /\ IF call.kind = "internalSync" /\ ContainsEOF(call.err)
           THEN /\ ncTarget' = OnEOF(ncTarget, reconnects).ncTarget
                /\ reconnects' = OnEOF(ncTarget, reconnects).reconnects
       ELSE UNCHANGED <<ncTarget, reconnects>>
    /\ UNCHANGED <<dsVars, leafVars, treeVars, navVars, rawVars, keysVars, intendedVars, syncCh>>

\* Set: one round of the loop over the delete and the add document, with what
\* GetDoc and the driver return
EditConfig(doc, result, discard) ==
    /\ call.pc = "EditConfig"
    /\ Len(call.docs) > 0
    /\ ContainsEOF(result) => MayStart(call.kind)
    /\ IF ~doc
           THEN /\ call' = [call EXCEPT !.pc = "returning", !.err = "err"]
                /\ UNCHANGED <<ncTarget, reconnects>>
       ELSE IF ~Head(call.docs).data
           THEN \* len(xdoc) == 0
                /\ call' = [call EXCEPT !.docs = Tail(@)]
                /\ UNCHANGED <<ncTarget, reconnects>>
       ELSE IF result = "nil"
           THEN /\ call' = [call EXCEPT
                               !.docs = Tail(@),
                               !.ops = Append(@, EditCall(Head(call.docs).xml, result))]
                /\ UNCHANGED <<ncTarget, reconnects>>
       ELSE IF ContainsEOF(result)
           THEN /\ call' = [call EXCEPT
                               !.pc = "returning", !.err = result,
                               !.ops = Append(@, EditCall(Head(call.docs).xml, result))]
                /\ ncTarget' = OnEOF(ncTarget, reconnects).ncTarget
                /\ reconnects' = OnEOF(ncTarget, reconnects).reconnects
       ELSE /\ call' = [call EXCEPT
                           !.pc = "returning", !.err = result,
                           !.ops = @ \o <<EditCall(Head(call.docs).xml, result),
                                          DriverCall("Discard", discard)>>]
            /\ UNCHANGED <<ncTarget, reconnects>>
    /\ UNCHANGED <<dsVars, leafVars, treeVars, navVars, rawVars, keysVars, intendedVars, syncCh>>

\* the calls of the driver Set makes from the commit on
CommitOps(result) == <<DriverCall("Commit", result)>>

\* Set: driver.Commit() after the loop
Commit(result) ==
    /\ call.pc = "EditConfig"
    /\ Len(call.docs) = 0
    /\ ContainsEOF(result) => MayStart(call.kind)
    /\ call' = [call EXCEPT !.pc = "returning", !.err = result,
                            !.ops = @ \o CommitOps(result)]
    /\ IF ContainsEOF(result)
           THEN /\ ncTarget' = OnEOF(ncTarget, reconnects).ncTarget
                /\ reconnects' = OnEOF(ncTarget, reconnects).reconnects
       ELSE UNCHANGED <<ncTarget, reconnects>>
    /\ UNCHANGED <<dsVars, leafVars, treeVars, navVars, rawVars, keysVars, intendedVars, syncCh>>

\* Get puts one notification into its response
NotificationsOfGet == 1

\* mutant: the End marker is sent before the updates
SyncMessages_EndFirst(notifications) ==
    <<"Start", "End">> \o [i \in 1..notifications |-> "Update"]

\* what internalSync sends for a response: Start, an Update per notification,
\* End
SyncMessages(notifications) ==
    <<"Start">> \o [i \in 1..notifications |-> "Update"] \o <<"End">>

\* internalSync: the next send on syncCh; after the End marker it returns
SyncSend ==
    /\ call.pc = "sync"
    /\ LET messages == SyncMessages(NotificationsOfGet)
           next == Len(syncCh) + 1
       IN  /\ next <= Len(messages)
           /\ syncCh' = Append(syncCh, messages[next])
           /\ call' = IF next = Len(messages) THEN [call EXCEPT !.pc = "returning"]
                      ELSE call
    /\ UNCHANGED <<ncTarget, reconnects>>
    /\ UNCHANGED <<dsVars, leafVars, treeVars, navVars, rawVars, keysVars, intendedVars>>

\* the call returns to its caller with call.err
Return ==
    /\ call.pc = "returning"
    /\ call' = [call EXCEPT !.pc = "idle"]
    /\ UNCHANGED <<ncTarget, reconnects>>
    /\ UNCHANGED <<dsVars, leafVars, treeVars, navVars, rawVars, keysVars, intendedVars, syncCh>>

\* mutant: reconnect does not take the mutex
ReconnectLock_NoMutex ==
    /\ reconnects.waiting > 0
    /\ IF ncTarget.connected
           THEN /\ reconnects' = [reconnects EXCEPT !.waiting = @ - 1]
                /\ UNCHANGED ncTarget
       ELSE /\ reconnects' = [waiting |-> reconnects.waiting - 1,
                              running |-> reconnects.running + 1,
                              created |-> FALSE]
            /\ ncTarget' = [ncTarget EXCEPT !.m = TRUE]
    /\ UNCHANGED call
    /\ UNCHANGED <<dsVars, leafVars, treeVars, navVars, rawVars, keysVars, intendedVars, syncCh>>

\* reconnect: t.m.Lock(), and the return when the target is connected
ReconnectLock ==
    /\ reconnects.waiting > 0
    /\ ~ncTarget.m
    /\ IF ncTarget.connected
           THEN /\ reconnects' = [reconnects EXCEPT !.waiting = @ - 1]
                /\ UNCHANGED ncTarget
       ELSE /\ reconnects' = [waiting |-> reconnects.waiting - 1, running |-> 1,
                              created |-> FALSE]
            /\ ncTarget' = [ncTarget EXCEPT !.m = TRUE]
    /\ UNCHANGED call
    /\ UNCHANGED <<dsVars, leafVars, treeVars, navVars, rawVars, keysVars, intendedVars, syncCh>>

\* mutant: reconnect returns when the creation of the driver fails
ReconnectAttempt_GivesUp(ok) ==
    /\ reconnects.running = 1
    /\ ~reconnects.created
    /\ IF ok
           THEN /\ ncTarget' = [ncTarget EXCEPT !.driver = "alive"]
                /\ reconnects' = [reconnects EXCEPT !.created = TRUE]
       ELSE /\ ncTarget' = [ncTarget EXCEPT !.driver = "nil", !.m = FALSE]
            /\ reconnects' = [reconnects EXCEPT !.running = 0]
    /\ UNCHANGED call
    /\ UNCHANGED <<dsVars, leafVars, treeVars, navVars, rawVars, keysVars, intendedVars, syncCh>>

\* reconnect: one round of the loop, NewScrapligoNetconfTarget succeeds or not;
\* the statements of the goroutine interleave with those of the calls, which
\* read and write t.driver and t.connected without the mutex
ReconnectAttempt(ok) ==
    /\ reconnects.running = 1
    /\ ~reconnects.created
    /\ IF ok
           THEN /\ ncTarget' = [ncTarget EXCEPT !.driver = "alive"]
                /\ reconnects' = [reconnects EXCEPT !.created = TRUE]
       ELSE /\ ncTarget' = [ncTarget EXCEPT !.driver = "nil"]
            /\ UNCHANGED reconnects
    /\ UNCHANGED call
    /\ UNCHANGED <<dsVars, leafVars, treeVars, navVars, rawVars, keysVars, intendedVars, syncCh>>

\* reconnect after the loop: t.connected = true, the return and the deferred
\* Unlock
ReconnectConnected ==
    /\ reconnects.running = 1
    /\ reconnects.created
    /\ ncTarget' = [ncTarget EXCEPT !.connected = TRUE, !.m = FALSE]
    /\ reconnects' = [reconnects EXCEPT !.running = 0, !.created = FALSE]
    /\ UNCHANGED call
    /\ UNCHANGED <<dsVars, leafVars, treeVars, navVars, rawVars, keysVars, intendedVars, syncCh>>

NextTarget ==
    \/ \E kind \in {"Get", "internalSync"} : Begin(kind, <<>>)
    \/ \E deletes, updates \in BOOLEAN : Begin("Set", SetDocs(deletes, updates))
    \/ \E built, transformed \in BOOLEAN, result \in DriverResults :
           GetConfig(built, result, transformed)
    \/ \E ok \in BOOLEAN : ParsePath(ok)
    \/ GetReturns
    \/ SyncSend
    \/ \E doc \in BOOLEAN, result, discard \in DriverResults :
           EditConfig(doc, result, discard)
    \/ \E result \in DriverResults : Commit(result)
    \/ Return
    \/ ReconnectLock
    \/ \E ok \in BOOLEAN : ReconnectAttempt(ok)
    \/ ReconnectConnected

(***************************************************************************)
(* Raw intents: saveRawIntent, getRawIntent, listRawIntent, deleteRawIntent *)
(***************************************************************************)
\* strings are sequences of characters
Digits == <<"0", "1", "2", "3", "4", "5", "6", "7", "8", "9">>
IsDigit(c) == \E i \in DOMAIN Digits : Digits[i] = c
DigitValue(c) == (CHOOSE i \in DOMAIN Digits : Digits[i] = c) - 1

\* fmt %d of a number
RECURSIVE FormatNat(_)
FormatNat(n) ==
    IF n < 10 THEN <<Digits[n + 1]>>
    ELSE Append(FormatNat(n \div 10), Digits[(n % 10) + 1])
FormatInt(n) == IF n < 0 THEN <<"-">> \o FormatNat(0 - n) ELSE FormatNat(n)

\* strconv.Atoi: an optional sign and at least one digit, nothing else
RECURSIVE ParseNat(_, _)
ParseNat(str, acc) ==
    IF Len(str) = 0 THEN acc
    ELSE ParseNat(Tail(str), acc * 10 + DigitValue(Head(str)))
Atoi(str) ==
    LET signed == Len(str) > 0 /\ Head(str) \in {"-", "+"}
        digits == IF signed THEN Tail(str) ELSE str
    IN  IF Len(digits) = 0 \/ \E i \in DOMAIN digits : ~IsDigit(digits[i])
            THEN [ok |-> FALSE, value |-> 0]
        ELSE [ok |-> TRUE,
              value |-> IF signed /\ Head(str) = "-" THEN 0 - ParseNat(digits, 0)
                        ELSE ParseNat(digits, 0)]

\* the conversion int32(pr): the priorities parsed from the keys were
\* formatted from an int32 and are in its range, where it changes nothing
Int32(n) == n

\* strings.TrimPrefix, strings.Split with a separator of one character,
\* strings.Join
TrimPrefix(str, prefix) ==
    IF Len(str) >= Len(prefix) /\ SubSeq(str, 1, Len(prefix)) = prefix
        THEN SubSeq(str, Len(prefix) + 1, Len(str))
    ELSE str
RECURSIVE Split(_, _)
Split(str, sep) ==
    IF \A i \in DOMAIN str : str[i] # sep THEN <<str>>
    ELSE LET i == CHOOSE k \in DOMAIN str :
                      str[k] = sep /\ \A j \in 1..(k - 1) : str[j] # sep
         IN  <<SubSeq(str, 1, i - 1)>> \o Split(SubSeq(str, i + 1, Len(str)), sep)
RECURSIVE Join(_, _)
Join(elems, sep) ==
    IF Len(elems) = 0 THEN <<>>
    ELSE IF Len(elems) = 1 THEN elems[1]
    ELSE elems[1] \o <<sep>> \o Join(Tail(elems), sep)

rawIntentPrefix ==
    <<"_", "_", "r", "a", "w", "_", "i", "n", "t", "e", "n", "t", "_", "_">>
intentRawNameSep == "_"

\* mutant: the name and the priority are joined without the separator
rawIntentNameChars_NoSep(name, pr) == rawIntentPrefix \o name \o FormatInt(pr)

\* rawIntentName on strings of characters
rawIntentNameChars(name, pr) ==
    rawIntentPrefix \o name \o <<intentRawNameSep>> \o FormatInt(pr)

\* the intent names, priorities and updates of the requests
RawNames ==
    {<<"a">>, <<"a", "_", "b">>, <<"_", "a">>, <<"a", "_">>, <<"a", "_", "5">>,
     rawIntentPrefix \o <<"a">>}
RawPriorities == {0 - 5, 15}
RawUpdates == {"u1", "u2"}
\* a SetIntentRequest with updates
RawRequest(name, pr, upd) == [intent |-> name, priority |-> pr, update |-> upd]
\* proto.Marshal and proto.Unmarshal of a request
Marshal(r) == <<"bytes", r.intent, r.priority, r.update>>
Unmarshal(b) == RawRequest(b[2], b[3], b[4])

\* the entries the cache returns for Read of one path
Read(store, key) == {e \in store : e.key = key}

\* cacheClient.Modify of the INTENTS store with deletes and updates
Modify(store, deletes, updates) ==
    {e \in store : e.key \notin deletes /\ \A u \in updates : u.key # e.key}
        \cup updates

ErrIntentNotFound == [err |-> "intent not found"]
\* mutant: the first entry of the store is returned
getRawIntent_AnyEntry(store, name, pr) ==
    IF store = {} THEN ErrIntentNotFound
    ELSE [err |-> "nil", req |-> Unmarshal((CHOOSE e \in store : TRUE).value)]

\* getRawIntent
getRawIntent(store, name, pr) ==
    LET upds == Read(store, rawIntentNameChars(name, pr))
    IN  IF upds = {} THEN ErrIntentNotFound
        ELSE [err |-> "nil", req |-> Unmarshal((CHOOSE e \in upds : TRUE).value)]

\* GetIntent: the intent of the response
GetIntent(store, name, pr) ==
    LET r == getRawIntent(store, name, pr)
    IN  IF r.err # "nil" THEN r
        ELSE [err |-> "nil",
              intent |-> [intent |-> r.req.intent, priority |-> r.req.priority,
                          update |-> r.req.update]]

\* the sdcpb.Intent listRawIntent builds from a key, or that the key is
\* malformed
ListedIntent(key) ==
    LET intentRawName == TrimPrefix(key, rawIntentPrefix)
        intentNameComp == Split(intentRawName, intentRawNameSep)
        inc == Len(intentNameComp)
        pr == Atoi(intentNameComp[inc])
    IN  IF inc < 2 \/ ~pr.ok THEN [err |-> "malformed raw intent name"]
        ELSE [err |-> "nil",
              intent |-> Join(SubSeq(intentNameComp, 1, inc - 1), intentRawNameSep),
              priority |-> Int32(pr.value)]

\* the order of the characters and of the strings
CharRank(c) ==
    CASE c = "-" -> 45 [] IsDigit(c) -> 48 + DigitValue(c) [] c = "_" -> 95
      [] c = "a" -> 97 [] c = "b" -> 98 [] c = "e" -> 101 [] c = "i" -> 105
      [] c = "n" -> 110 [] c = "r" -> 114 [] c = "t" -> 116 [] c = "w" -> 119
RECURSIVE StringLess(_, _)
StringLess(a, b) ==
    IF Len(b) = 0 THEN FALSE
    ELSE IF Len(a) = 0 THEN TRUE
    ELSE IF Head(a) # Head(b) THEN CharRank(Head(a)) < CharRank(Head(b))
    ELSE StringLess(Tail(a), Tail(b))
\* the less function of sort.Slice in listRawIntent
IntentLess(i, j) ==
    IF i.priority = j.priority THEN StringLess(i.intent, j.intent)
    ELSE i.priority < j.priority
RECURSIVE SortIntents(_)
SortIntents(intents) ==
    IF intents = {} THEN <<>>
    ELSE LET first == CHOOSE i \in intents :
                          \A j \in intents \ {i} : ~IntentLess(j, i)
         IN  <<first>> \o SortIntents(intents \ {first})

\* listRawIntent: the sorted intents, or the error of a malformed key
listRawIntent(store) ==
    LET listed == {ListedIntent(e.key) : e \in store}
    IN  IF \E l \in listed : l.err # "nil"
            THEN [err |-> "malformed raw intent name", intents |-> <<>>]
        ELSE [err |-> "nil",
              intents |-> SortIntents({[intent |-> l.intent, priority |-> l.priority] :
                                          l \in listed})]

\* most raw intents in the store
MaxStored == 2


\* no GetIntent or ListIntent call yet, the INTENTS store is empty
NoRawOut == [op |-> "none"]
InitRawIdle ==
    /\ rawStore = {}
    /\ rawOut = NoRawOut
    /\ rawLast = [k \in RawNames \X RawPriorities |-> "none"]

\* a SetIntent with updates that succeeds, up to its last step: saveRawIntent
\* of the request, or deleteRawIntent when the request has the delete flag
SetIntentRaw(name, pr, upd, delete) ==
    LET rin == rawIntentNameChars(name, pr)
        request == RawRequest(name, pr, upd)
    IN  /\ delete \/ Cardinality({e.key : e \in rawStore} \cup {rin}) <= MaxStored
        /\ rawStore' = IF delete THEN Modify(rawStore, {rin}, {})
                       ELSE Modify(rawStore, {}, {[key |-> rin, value |-> Marshal(request)]})
        /\ rawOut' = NoRawOut
        /\ rawLast' = [rawLast EXCEPT ![<<name, pr>>] =
                                        IF delete THEN "none" ELSE upd]
        /\ UNCHANGED <<dsVars, leafVars, treeVars, navVars, ncVars, keysVars, intendedVars>>

GetIntentCall(name, pr) ==
    /\ rawOut' = [op |-> "GetIntent", intent |-> name, priority |-> pr,
                  rsp |-> GetIntent(rawStore, name, pr)]
    /\ UNCHANGED <<rawStore, rawLast, dsVars, leafVars, treeVars, navVars, ncVars, keysVars, intendedVars>>

ListIntentCall ==
    /\ rawOut' = [op |-> "ListIntent", rsp |-> listRawIntent(rawStore)]
    /\ UNCHANGED <<rawStore, rawLast, dsVars, leafVars, treeVars, navVars, ncVars, keysVars, intendedVars>>

NextRaw ==
    \/ \E name \in RawNames, pr \in RawPriorities, upd \in RawUpdates,
          delete \in BOOLEAN : SetIntentRaw(name, pr, upd, delete)
    \/ \E name \in RawNames, pr \in RawPriorities : GetIntentCall(name, pr)
    \/ ListIntentCall

(***************************************************************************)
(* SetIntentUpdate: what one owner's SetIntent leaves in the intended store *)
(***************************************************************************)
IntendedPaths == {Hostname, Location}
IntendedPriorities == {5, 10}

\* the updates of a request: one value for each path of a non-empty set
IntendedUpdates ==
    UNION {{{Update(path, f[path], pr, ActualOwner) : path \in ps} :
               f \in [ps -> TreeValues]} :
           ps \in (SUBSET IntendedPaths) \ {{}}, pr \in IntendedPriorities}

NoOwnerReq == [priority |-> 0, updates |-> {}]

InitIntendedIdle ==
    /\ intended = {}
    /\ ownerReq = NoOwnerReq
    /\ ownerTree = [path \in IntendedPaths |-> <<>>]
    /\ pending = {}
    /\ intendedPc = "idle"

FilterNonDeletedButNewOrUpdated(le) == ~le.Delete /\ (le.IsNew \/ le.IsUpdated)
FilterDeleted(le) == le.Delete

\* the LeafEntryFilter of the given name applied to a leaf variant
LeafEntryFilter(f, le) ==
    CASE f = "FilterNonDeletedButNewOrUpdated" -> FilterNonDeletedButNewOrUpdated(le)
      [] f = "FilterDeleted" -> FilterDeleted(le)

\* the leaf variants of the owner that pass the filter
getByOwnerFiltered(tree, owner, f) ==
    {le \in UNION {{tree[path][i] : i \in DOMAIN tree[path]} : path \in DOMAIN tree} :
        le.owner = owner /\ LeafEntryFilter(f, le)}

LeafEntriesToCacheUpdates(les) ==
    {Update(le.path, le.value, le.priority, le.owner) : le \in les}

GetUpdatesForOwner(tree, owner) ==
    LeafEntriesToCacheUpdates(
        getByOwnerFiltered(tree, owner, "FilterNonDeletedButNewOrUpdated"))

GetDeletesForOwner(tree, owner) ==
    {u.path : u \in LeafEntriesToCacheUpdates(
                        getByOwnerFiltered(tree, owner, "FilterDeleted"))}

\* cacheClient.Modify on the INTENDED store: the call is scoped to the key
\* of owner and priority; the deletes remove the paths under that key, an
\* update replaces the entry of its own key and path
ModifyOpts(store, owner, priority, deletes, updates) ==
    {u \in store :
        /\ ~(u.owner = owner /\ u.priority = priority /\ u.path \in deletes)
        /\ ~\E w \in updates :
               w.owner = u.owner /\ w.priority = u.priority /\ w.path = u.path}
    \cup updates

\* SetIntent(owner, priority, updates) is received: populateTree starts
\* with an empty tree and reads the entries of the owner from the store
populateTree(pr, updates) ==
    /\ intendedPc = "idle"
    /\ ownerReq' = [priority |-> pr, updates |-> updates]
    /\ ownerTree' = [path \in IntendedPaths |-> <<>>]
    /\ pending' = {u \in intended : u.owner = ActualOwner}
    /\ intendedPc' = "load"
    /\ UNCHANGED intended
    /\ UNCHANGED <<dsVars, leafVars, treeVars, navVars, rawVars, ncVars, keysVars>>

\* one entry of the owner is added to the tree with new = false
LoadIntendedStoreOwnerData(c) ==
    /\ intendedPc = "load"
    /\ c \in pending
    /\ ownerTree' = [ownerTree EXCEPT ![c.path] = AddLeafEntry(@, c, FALSE)]
    /\ pending' = pending \ {c}
    /\ UNCHANGED <<intended, ownerReq, intendedPc>>
    /\ UNCHANGED <<dsVars, leafVars, treeVars, navVars, rawVars, ncVars, keysVars>>

\* all entries are loaded: every leaf variant of the owner is marked deleted
MarkOwnerDeleted ==
    /\ intendedPc = "load"
    /\ pending = {}
    /\ ownerTree' =
           [path \in IntendedPaths |->
               LET l == ownerTree[path]
                   i == GetByOwner(l, ActualOwner)
               IN  IF i # 0 THEN [l EXCEPT ![i] = MarkDelete(l[i])] ELSE l]
    /\ pending' = ownerReq.updates
    /\ intendedPc' = "add"
    /\ UNCHANGED <<intended, ownerReq>>
    /\ UNCHANGED <<dsVars, leafVars, treeVars, navVars, rawVars, ncVars, keysVars>>

\* one update of the request is added to the tree with new = true
AddRequestUpdate(c) ==
    /\ intendedPc = "add"
    /\ c \in pending
    /\ ownerTree' = [ownerTree EXCEPT ![c.path] = AddLeafEntry(@, c, TRUE)]
    /\ pending' = pending \ {c}
    /\ UNCHANGED <<intended, ownerReq, intendedPc>>
    /\ UNCHANGED <<dsVars, leafVars, treeVars, navVars, rawVars, ncVars, keysVars>>

\* SetIntentUpdate writes the updates and deletes of the owner to the
\* intended store; when Modify fails the request fails and nothing is written
SetIntentUpdatePersist(ok) ==
    /\ intendedPc = "add"
    /\ pending = {}
    /\ IF ok
           THEN /\ intended' = ModifyOpts(intended, ActualOwner, ownerReq.priority,
                                          GetDeletesForOwner(ownerTree, ActualOwner),
                                          GetUpdatesForOwner(ownerTree, ActualOwner))
                /\ UNCHANGED ownerReq
       ELSE /\ ownerReq' = NoOwnerReq
            /\ UNCHANGED intended
    /\ intendedPc' = "idle"
    /\ UNCHANGED <<ownerTree, pending>>
    /\ UNCHANGED <<dsVars, leafVars, treeVars, navVars, rawVars, ncVars, keysVars>>

NextIntended ==
    \/ \E pr \in IntendedPriorities :
           \E updates \in {us \in IntendedUpdates : \A u \in us : u.priority = pr} :
               populateTree(pr, updates)
    \/ \E c \in pending : LoadIntendedStoreOwnerData(c)
    \/ MarkOwnerDeleted
    \/ \E c \in pending : AddRequestUpdate(c)
    \/ \E ok \in BOOLEAN : SetIntentUpdatePersist(ok)

(***************************************************************************)
(* readIntendedStoreKeysMeta: the index of the intended store              *)
(***************************************************************************)
KeysIndexSep == "_"

\* the path elements of the keys of the intended store, as strings of
\* characters, and the paths made of them
MaxKeyPath == 2
MaxKeys == 2
KeySegments == {<<"a">>, <<"b">>, <<"a", "_", "b">>}
KeyPaths == UNION {[1..n -> KeySegments] : n \in 1..MaxKeyPath}
\* an entry of the channel of GetKeys: the path with owner and priority
KeyEntries == {IndexEntry(path, owner, 10) : path \in KeyPaths, owner \in {"A", "B"}}
\* the intended store holds an entry once per path and owner
KeyChannels ==
    {ch \in UNION {[1..n -> KeyEntries] : n \in 0..MaxKeys} :
        \A i, j \in 1..Len(ch) : i # j => ch[i] # ch[j]}

\* strings.Join(e.GetPath(), tree.KeysIndexSep)
IndexKey(path) == Join(path, KeysIndexSep)

\* no read of the keys in progress
InitKeysIdle ==
    /\ entryCh = <<>>
    /\ keysResult = <<>>
    /\ keysPc = "returned"

\* one entry arrives on the channel and is appended to the slice of its key
ReadKey ==
    /\ keysPc = "reading"
    /\ entryCh # <<>>
    /\ LET e == Head(entryCh)
           key == IndexKey(e.path)
           slice == IF key \in DOMAIN keysResult THEN keysResult[key] ELSE <<>>
       IN  keysResult' = [k \in DOMAIN keysResult \cup {key} |->
                             IF k = key THEN Append(slice, e) ELSE keysResult[k]]
    /\ entryCh' = Tail(entryCh)
    /\ UNCHANGED keysPc
    /\ UNCHANGED <<dsVars, leafVars, treeVars, navVars, rawVars, ncVars, intendedVars>>

\* the channel is closed: the map is returned
KeysReturn ==
    /\ keysPc = "reading"
    /\ entryCh = <<>>
    /\ keysPc' = "returned"
    /\ UNCHANGED <<entryCh, keysResult>>
    /\ UNCHANGED <<dsVars, leafVars, treeVars, navVars, rawVars, ncVars, intendedVars>>

NextKeys == ReadKey \/ KeysReturn

(***************************************************************************)
(* Navigate                                                                *)
(***************************************************************************)
\* the result of Navigate: the entry (named by its path) and nil, or nil and
\* an error
NavEntry(path) == [entry |-> path, err |-> FALSE]
NavError == [entry |-> <<"nil">>, err |-> TRUE]

\* tryLoading: ReadRunning finds no update for the path in the running
\* cache, tryLoading returns the error
tryLoading(s, path) == NavError

\* Navigate is NavigateFor with the values of cont and idx before the loop
RECURSIVE NavigateFor(_, _, _, _)
NavigateFor(s, path, idx, cont) ==
    IF Len(path) = 0 THEN NavEntry(s)
    ELSE IF ~cont THEN NavError
    ELSE IF idx > Len(path) THEN NavError
    ELSE IF path[idx] = "." THEN NavigateFor(s, path, idx + 1, TRUE)
    ELSE IF path[idx] = ".."
        THEN IF s = <<>> THEN NavError
             ELSE NavigateFor(Parent(s), Tail(path), 1, FALSE)
    ELSE IF Append(s, path[1]) \in filterActiveChoiceCaseChilds(s)
        THEN NavigateFor(Append(s, path[1]), Tail(path), 1, FALSE)
    ELSE tryLoading(s, path)

Navigate(s, path) == NavigateFor(s, path, 1, FALSE)

NoNav == [done |-> FALSE, from |-> <<>>, path |-> <<>>, result |-> NavError]
InitNavIdle == navResult = NoNav

\* the path elements and the paths Navigate is called with
MaxPath == 2
NavElems == {".", "..", "sys", "hostname", "mtu"}
NavPaths == UNION {[1..n -> NavElems] : n \in 0..MaxPath}

\* the trees of the intended store of owner A, after FinishInsertionPhase
NavTrees == SUBSET LeafPaths
InitNavigate ==
    /\ InitDs
    /\ InitLeafIdle
    /\ \E leaves \in NavTrees :
           /\ childs = {<<>>} \cup UNION {Prefixes(path) : path \in leaves}
           /\ leafVariants =
                  [path \in NodePaths |->
                      IF path \in leaves
                          THEN <<NewLeafEntry(Update(path, 1500, 10, "A"), FALSE)>>
                      ELSE <<>>]
    /\ phase = "resolved"
    /\ steps = 0
    /\ treeResult = NoTreeResult
    /\ choicesResolvers = InitResolvers
    /\ dsSchema = "list"
    /\ storeIndex = {}
    /\ navResult = NoNav
    /\ InitRawIdle
    /\ InitTargetIdle
    /\ InitKeysIdle
    /\ InitIntendedIdle

\* a call of Navigate(path) on the entry s
NavigateCall(s, path) ==
    /\ phase = "resolved"
    /\ s \in childs
    /\ navResult' = [done |-> TRUE, from |-> s, path |-> path,
                     result |-> Navigate(s, path)]
    /\ UNCHANGED <<dsVars, leafVars, treeVars, rawVars, ncVars, keysVars, intendedVars>>

NextNavigate == \E s \in NodePaths, path \in NavPaths : NavigateCall(s, path)
SpecNavigate == InitNavigate /\ [][NextNavigate]_vars

\* newNCTarget has returned without an error
InitTarget ==
    /\ InitDs /\ InitLeafIdle /\ InitTreeIdle /\ InitNavIdle /\ InitRawIdle
    /\ InitKeysIdle
    /\ InitIntendedIdle
    /\ ncTarget = [connected |-> TRUE, driver |-> "alive", m |-> FALSE]
    /\ call = NoCall
    /\ reconnects = [waiting |-> 0, running |-> 0, created |-> FALSE]
    /\ syncCh = <<>>

SpecTarget == InitTarget /\ [][NextTarget]_vars

\* the goroutines of reconnect are scheduled, and the creation of the driver,
\* retried every ConnectRetry, succeeds in the end
FairTarget ==
    /\ WF_vars(ReconnectLock)
    /\ WF_vars(ReconnectAttempt(TRUE))
    /\ WF_vars(ReconnectConnected)
SpecTargetFair == InitTarget /\ [][NextTarget]_vars /\ FairTarget

\* cacheClient.GetKeys has returned the channel of the keys of the intended store
InitKeys ==
    /\ InitDs /\ InitLeafIdle /\ InitTreeIdle /\ InitNavIdle /\ InitRawIdle
    /\ InitTargetIdle
    /\ InitIntendedIdle
    /\ entryCh \in KeyChannels
    /\ keysResult = <<>>
    /\ keysPc = "reading"
SpecKeys == InitKeys /\ [][NextKeys]_vars

InitIntended ==
    /\ InitDs
    /\ InitLeafIdle
    /\ InitTreeIdle
    /\ InitNavIdle
    /\ InitRawIdle
    /\ InitTargetIdle
    /\ InitKeysIdle
    /\ InitIntendedIdle

SpecIntended == InitIntended /\ [][NextIntended]_vars

InitRaw ==
    InitDs /\ InitLeafIdle /\ InitTreeIdle /\ InitNavIdle /\ InitRawIdle /\ InitTargetIdle
    /\ InitKeysIdle
    /\ InitIntendedIdle
SpecRaw == InitRaw /\ [][NextRaw]_vars

Init ==
    InitDs /\ InitLeafIdle /\ InitTreeIdle /\ InitNavIdle /\ InitRawIdle /\ InitTargetIdle
    /\ InitKeysIdle
    /\ InitIntendedIdle

Next ==
    \E h \in Handlers :
        /\ \/ SetIntent(h)
           \/ CreateCandidate(h)
           \/ SetIntentDelete(h)
           \/ PopulateTree(h)
           \/ ConvertUpdates(h)
           \/ ValidateReceive(h)
           \/ ValidateClosed(h)
           \/ ConvertDeletes(h)
           \/ SetCandidate(h)
           \/ ApplyIntent(h)
           \/ SbiSet(h)
           \/ ModifyIntended(h)
           \/ ModifyConfig(h)
           \/ RawIntent(h)
           \/ DeferDeleteCandidate(h)
           \/ DeferUnlock(h)
        /\ UNCHANGED <<leafVars, treeVars, navVars, rawVars, ncVars, keysVars, intendedVars>>

Spec == Init /\ [][Next]_vars

InitLeafSpec ==
    InitDs /\ InitLeaf /\ InitTreeIdle /\ InitNavIdle /\ InitRawIdle /\ InitTargetIdle
    /\ InitKeysIdle
    /\ InitIntendedIdle
NextLeaf == QueryLeaf /\ UNCHANGED <<dsVars, treeVars, navVars, rawVars, ncVars, keysVars, intendedVars>>
SpecLeaf == InitLeafSpec /\ [][NextLeaf]_vars

InitTreeSpec ==
    InitDs /\ InitLeafIdle /\ InitTree /\ InitNavIdle /\ InitRawIdle /\ InitTargetIdle
    /\ InitKeysIdle
    /\ InitIntendedIdle
NextTree ==
    /\ \/ \E c \in Updates : \E new \in IsNewFlags(c) : AddCacheUpdateRecursive(c, new)
       \/ \E o \in TreeOwners : MarkOwnerDelete(o)
       \/ FinishInsertionPhase
       \/ GetDeltas
       \/ ValidateMandatoryRoot
    /\ UNCHANGED <<dsVars, leafVars, navVars, rawVars, ncVars, keysVars, intendedVars>>
SpecTree == InitTreeSpec /\ [][NextTree]_vars

\* the tree of a request whose updates set values at containers as well as
\* below them
InitUnchecked ==
    /\ InitDs
    /\ InitLeafIdle
    /\ InitNavIdle
    /\ InitRawIdle
    /\ InitTargetIdle
    /\ InitKeysIdle
    /\ InitIntendedIdle
    /\ childs = {<<>>}
    /\ leafVariants = [path \in NodePaths |-> <<>>]
    /\ phase = "insertion"
    /\ steps = 0
    /\ treeResult = NoTreeResult
    /\ choicesResolvers = InitResolvers
    /\ dsSchema = "unchecked"
    /\ storeIndex = {}
SpecUnchecked == InitUnchecked /\ [][NextTree]_vars


(***************************************************************************)
(* Claims on the SetIntent transaction (Spec)                              *)
(***************************************************************************)
\* handler h is inside SetIntent, past the lock acquisition
InSetIntent(h) == pc[h] \notin {"idle", "returned"}

\* a SetIntent call arrives at h in this step
Arrives(h) ==
    /\ pc[h] \in {"idle", "returned"}
    /\ <<pc[h], err[h], req[h]>>' # <<pc[h], err[h], req[h]>>

OpsOf(h, names) == {i \in DOMAIN ops[h] : ops[h][i].op \in names}
ModifyOps == {"Modify INTENDED", "Modify CONFIG", "Modify INTENTS"}
Returning(h) == pc[h] \in {"deferDeleteCandidate", "deferUnlock"}

\* C1: at most one SetIntent of the datastore is past the lock acquisition,
\* and a SetIntent that arrives while another one holds the intent mutex
\* returns ResourceExhausted in that very step, having issued no external
\* call (no candidate, nothing southbound) and changed no store.
C1_SingleFlight ==
    /\ [](Cardinality({h \in Handlers : InSetIntent(h)}) <= 1)
    /\ [][\A h \in Handlers :
            (Arrives(h) /\ \E g \in Handlers \ {h} : InSetIntent(g))
            => /\ pc'[h] = "returned"
               /\ err'[h] = Error("ResourceExhausted")
               /\ ops'[h] = <<>>
               /\ UNCHANGED <<ops, candidates, intentsStore, intentMutex>>]_vars

C1_Witness ==
    \E h, g \in Handlers :
        /\ h # g
        /\ InSetIntent(g)
        /\ pc[h] = "returned"
        /\ err[h] = Error("ResourceExhausted")

\* C2: the intent mutex is held exactly while a SetIntent is past the lock
\* acquisition (every exit path released it), and a SetIntent that arrives
\* while no SetIntent is in progress acquires it: it is not rejected as busy.
C2_LockReleased ==
    /\ [](intentMutex <=> \E h \in Handlers : InSetIntent(h))
    /\ [][\A h \in Handlers :
            (Arrives(h) /\ \A g \in Handlers : ~InSetIntent(g))
            => (pc'[h] = "CreateCandidate" /\ err'[h] = NoErr)]_vars

C2_Witness ==
    /\ ~intentMutex
    /\ \E h, g \in Handlers :
          /\ pc[h] = "returned" /\ err[h].code = "CreateCandidate"
          /\ pc[g] = "returned" /\ err[g].code = "applyIntent"

\* the DeleteCandidate calls of h's current call for its candidate
DeleteCalls(h) ==
    {i \in OpsOf(h, {"DeleteCandidate"}) : ops[h][i].arg = candidateName[h]}
Created(h) ==
    \E i \in DOMAIN ops[h] : ops[h][i] = Op("CreateCandidate", candidateName[h], TRUE)

\* C3: when all calls of a SetIntent are done (only the Unlock is left),
\* DeleteCandidate was invoked exactly once for the call's candidate name if
\* CreateCandidate succeeded and not at all if it failed; it is never
\* invoked twice, nor for another name, nor before the candidate exists.
C3_CandidateDeletedOnce ==
    \A h \in Handlers :
        /\ OpsOf(h, {"DeleteCandidate"}) = DeleteCalls(h)
        /\ Cardinality(DeleteCalls(h)) <= 1
        /\ DeleteCalls(h) # {} => Created(h)
        /\ pc[h] = "deferUnlock" =>
              Cardinality(DeleteCalls(h)) = (IF Created(h) THEN 1 ELSE 0)

C3_Witness ==
    \E h \in Handlers :
        /\ pc[h] = "deferUnlock"
        /\ err[h].code = "validation"
        /\ Cardinality(DeleteCalls(h)) = 1

\* the push of h's current call failed: setCandidate or the southbound Set
PushFailed(h, name) == \E i \in OpsOf(h, {name}) : ~ops[h][i].ok

\* C4: if setting the candidate or applying the intent southbound fails,
\* SetIntentUpdate returns that error (the call is on its way out with it)
\* and the call has issued no Modify to the intended, config or intents
\* store.
C4_SouthboundFailureNoStore ==
    \A h \in Handlers :
        /\ PushFailed(h, "setCandidate") => err[h] = Error("setCandidate")
        /\ PushFailed(h, "sbi.Set") => err[h] = Error("applyIntent")
        /\ (InSetIntent(h) /\ err[h].code \in {"setCandidate", "applyIntent"})
              => (Returning(h) /\ OpsOf(h, ModifyOps) = {})

C4_Witness ==
    \E h \in Handlers :
        /\ pc[h] = "deferUnlock"
        /\ PushFailed(h, "sbi.Set")
        /\ err[h] = Error("applyIntent")

\* C5: if root.Validate reports at least one error, SetIntentUpdate does
\* not get past the validation: it returns one error that holds all the
\* reported errors, and the call has set nothing into the candidate, sent
\* nothing southbound and issued no Modify.
C5_ValidationErrorsCumulated ==
    \A h \in Handlers :
        validateAll[h] # <<>> =>
            /\ pc[h] = "Validate" \/ Returning(h)
            /\ Returning(h) => err[h] = [code |-> "validation", errs |-> validateAll[h]]
            /\ OpsOf(h, ModifyOps \cup {"setCandidate", "sbi.Set"}) = {}

C5_Witness ==
    \E h \in Handlers :
        /\ pc[h] = "deferUnlock"
        /\ Len(validateAll[h]) = 2
        /\ validateAll[h][1] # validateAll[h][2]
        /\ err[h].code = "validation"

\* the writes of the cache that follow the push to the device
CacheWrites == {"Modify INTENDED", "Modify CONFIG", "Modify INTENTS"}
\* the calls that reach the device
Southbound == {"sbi.Set"}

\* the call of handler h has pushed to the device and a cache write after it
\* has failed, as call number `failed`
WriteFailedAfterPush(h, failed) ==
    /\ failed \in OpsOf(h, CacheWrites)
    /\ ~ops[h][failed].ok
    /\ \E i \in OpsOf(h, Southbound) : i < failed /\ ops[h][i].ok

\* C29: when a cache write (INTENDED, CONFIG or the raw intent) fails after a
\* successful push to the device, nothing more is sent to the device: the
\* failed write is followed by the deferred DeleteCandidate only, and the call
\* returns the error of the write.
C29_NoRollbackAfterPush ==
    \A h \in Handlers :
        \A failed \in DOMAIN ops[h] :
            WriteFailedAfterPush(h, failed) =>
                /\ \A i \in DOMAIN ops[h] : i > failed => ops[h][i].op = "DeleteCandidate"
                /\ Cardinality(OpsOf(h, Southbound)) = 1
                /\ Returning(h)
                /\ err[h] # NoErr

C29_Witness ==
    \E h \in Handlers :
        /\ pc[h] = "deferUnlock"
        /\ \E failed \in DOMAIN ops[h] :
               /\ WriteFailedAfterPush(h, failed)
               /\ ops[h][failed].op = "Modify CONFIG"
               /\ failed < Len(ops[h])

\* SetIntent of handler h is past the switch on the request
Dispatched(h) ==
    /\ InSetIntent(h)
    /\ pc[h] # "CreateCandidate"
    /\ ops[h] # <<>>
    /\ ops[h][1].ok

\* C30: a request with updates takes the update path even when its delete flag
\* is set; a request without updates and with the delete flag takes the delete
\* path; a request with neither succeeds after the candidate was created and
\* deleted: nothing is sent to the device and no store is written.
C30_Dispatch ==
    \A h \in Handlers :
        Dispatched(h) =>
            IF req[h].update
                THEN /\ pc[h] = "populateTree" \/ (Len(ops[h]) > 1 /\ ops[h][2].op = "populateTree")
                     /\ OpsOf(h, {"SetIntentDelete"}) = {}
                     /\ pc[h] # "SetIntentDelete"
            ELSE IF req[h].delete
                THEN /\ pc[h] = "SetIntentDelete"
                        \/ (Len(ops[h]) > 1 /\ ops[h][2].op = "SetIntentDelete")
                     /\ OpsOf(h, {"populateTree"}) = {}
                     /\ pc[h] # "populateTree"
            ELSE /\ Returning(h)
                 /\ err[h] = NoErr
                 /\ \A i \in DOMAIN ops[h] :
                        ops[h][i].op \in {"CreateCandidate", "DeleteCandidate"}

\* a request with updates and the delete flag is on the update path
C30_Witness ==
    \E h \in Handlers :
        /\ Dispatched(h)
        /\ req[h].update /\ req[h].delete
        /\ pc[h] = "convertUpdates"

\* call number i of handler h is a write of the store named and succeeded
Wrote(h, i, name) == i \in OpsOf(h, {name}) /\ ops[h][i].ok

\* C32: after the push SetIntentUpdate writes the intended store, then the
\* config store, then the raw intent (deleted when the delete flag is set,
\* saved otherwise), each once; a write that fails returns its error and no
\* later write is made, nor is an earlier one undone.
C32_PersistenceOrder ==
    \A h \in Handlers :
        /\ \A name \in CacheWrites : Cardinality(OpsOf(h, {name})) <= 1
        /\ \A i \in OpsOf(h, {"Modify INTENDED"}) :
               /\ \A k \in 1..(i - 1) : ops[h][k].ok
               /\ OpsOf(h, Southbound) # {} <=> hasDeltas[h]
        /\ \A c \in OpsOf(h, {"Modify CONFIG"}) :
               \E i \in 1..(c - 1) : Wrote(h, i, "Modify INTENDED")
        /\ \A r \in OpsOf(h, {"Modify INTENTS"}) :
               /\ \E c \in 1..(r - 1) : Wrote(h, c, "Modify CONFIG")
               /\ ops[h][r].ok =>
                      (rawIntentName(req[h].intent, req[h].priority) \in intentsStore
                           <=> ~req[h].delete)
        /\ \A k \in OpsOf(h, CacheWrites) :
               ~ops[h][k].ok =>
                   /\ err[h] # NoErr
                   /\ \A j \in DOMAIN ops[h] : j > k => ops[h][j].op = "DeleteCandidate"

\* the three writes were made and the raw intent was deleted
C32_Witness ==
    \E h \in Handlers :
        /\ req[h].delete
        /\ \E i, c, r \in DOMAIN ops[h] :
               /\ i < c /\ c < r
               /\ Wrote(h, i, "Modify INTENDED")
               /\ Wrote(h, c, "Modify CONFIG")
               /\ Wrote(h, r, "Modify INTENTS")

(***************************************************************************)
(* Claims on LeafVariants (SpecLeaf)                                       *)
(***************************************************************************)
\* the variants of l whose delete flag is not set
NonDeleted(l) == {i \in DOMAIN l : ~l[i].Delete}

\* C7 (as claimed): whenever shouldDelete is false, GetHighestPrecedence(false)
\* returns a variant that is not deleted and has the lowest priority number
\* among the variants that are not deleted.
C7_HighestAmongNonDeleted ==
    (lvResult.done /\ ~shouldDelete(lv) /\ NonDeleted(lv) # {}) =>
        /\ lvResult.highest \in NonDeleted(lv)
        /\ \A j \in NonDeleted(lv) : lv[lvResult.highest].priority <= lv[j].priority

\* the variant with the lowest priority number, the first inserted on a tie
Lowest(l, among) ==
    IF among = {} THEN 0
    ELSE CHOOSE i \in among :
            \A j \in among :
                \/ l[i].priority < l[j].priority
                \/ (l[i].priority = l[j].priority /\ i <= j)
Top(l) == Lowest(l, DOMAIN l)
Second(l) == Lowest(l, DOMAIN l \ {Top(l)})

\* C8: GetHighestPrecedence(true) returns none when shouldDelete holds; when
\* the lowest-priority variant is not deleted, that variant iff it is new or
\* updated; when it is deleted, the second-lowest-priority variant if that
\* exists and is not deleted, none otherwise.
C8_OnlyChanged ==
    lvResult.done =>
        lvResult.changed =
            (IF Len(lv) = 0 \/ shouldDelete(lv) THEN 0
             ELSE IF ~lv[Top(lv)].Delete
                 THEN IF lv[Top(lv)].IsNew \/ lv[Top(lv)].IsUpdated THEN Top(lv) ELSE 0
             ELSE IF Second(lv) # 0 /\ ~lv[Second(lv)].Delete THEN Second(lv)
             ELSE 0)

C8_Witness ==
    /\ lvResult.done
    /\ Len(lv) = 3
    /\ lv[Top(lv)].Delete
    /\ lvResult.changed = Second(lv)
    /\ lvResult.changed # 0
    /\ lv[1].priority = lv[2].priority

\* two variants of different owners, not deleted, of the same priority, the
\* first inserted before the second
Tied(l, first, later) ==
    /\ first < later
    /\ l[first].priority = l[later].priority
    /\ l[first].owner # l[later].owner
    /\ ~l[first].Delete /\ ~l[later].Delete

\* C28: of two non-deleted variants of different owners with the same priority
\* the one inserted first is the highest: the later one is never the result,
\* whatever other variants the leaf holds and wherever they stand, and when no
\* variant before the first has a priority as low and none at all a lower one,
\* the first is the result.
C28_TieInsertionOrder ==
    lvResult.done =>
        \A first, later \in DOMAIN lv :
            Tied(lv, first, later) =>
                /\ lvResult.highest # later
                /\ lvResult.changed # later
                /\ ScanHighest(lv, 1, 0, 0)[1] # later
                /\ (/\ \A k \in DOMAIN lv : lv[k].priority >= lv[first].priority
                    /\ \A k \in 1..(first - 1) : lv[k].priority > lv[first].priority)
                       => lvResult.highest = first

\* the tied pair follows a variant of lower precedence and is the result
C28_Witness ==
    /\ lvResult.done
    /\ Len(lv) = 3
    /\ Tied(lv, 2, 3)
    /\ lv[1].priority > lv[2].priority
    /\ lvResult.highest = 2

(***************************************************************************)
(* Claims on the tree (SpecTree)                                           *)
(***************************************************************************)
\* every missing mandatory child of the tree: a container entry with
\* mandatory children, an instance of it below its key levels, and a
\* mandatory attribute that is neither kept in the tree nor in the index
Instances(path) ==
    {e \in childs : Len(e) = Len(path) + Len(NodeSchema(path).keys)
                    /\ SubSeq(e, 1, Len(path)) = path}
AllViolations ==
    {MandatoryError(e, NodeSchema(path).MandatoryChildren[i]) :
        <<path, e, i>> \in
            {t \in childs \X childs \X (1..1) :
                /\ NodeSchema(t[1]).kind = "container"
                /\ t[3] \in DOMAIN NodeSchema(t[1]).MandatoryChildren
                /\ t[2] \in Instances(t[1])
                /\ LET v == Append(t[2], NodeSchema(t[1]).MandatoryChildren[t[3]])
                   IN  ~(v \in childs /\ ~ShouldDelete(v)) /\ ~PathExists(v)}}

\* C6 (as claimed): the validation of mandatory children does not stop at the
\* first violation, every missing mandatory child of the tree is reported.
C6_AllViolationsReported ==
    phase = "validated" => treeResult.errors = AllViolations

\* the leaf /interface[name=eth0]/mtu holds exactly the variant of B
\* (priority 5), deleted, and the variant of A (priority 10), not deleted
ScenarioB ==
    /\ phase \in {"finished", "validated"}
    /\ Len(leafVariants[Mtu]) = 2
    /\ \E i, j \in 1..2 :
          /\ leafVariants[Mtu][i].owner = "B"
          /\ leafVariants[Mtu][i].priority = 5
          /\ leafVariants[Mtu][i].Delete
          /\ leafVariants[Mtu][j].owner = "A"
          /\ leafVariants[Mtu][j].priority = 10
          /\ ~leafVariants[Mtu][j].Delete
ValueOfA == leafVariants[Mtu][GetByOwner(leafVariants[Mtu], "A")].value

NonRunning(path) ==
    {i \in DOMAIN leafVariants[path] :
        leafVariants[path][i].owner # RunningIntentName}
OnlyRunning(path) ==
    Len(leafVariants[path]) = 1 /\ leafVariants[path][1].owner = RunningIntentName

\* C10 (as claimed): an entry is marked shouldDelete iff (i) it has leaf
\* variants and every variant not owned by running has delete set, or (ii)
\* it has no variants and every child is marked shouldDelete.
C10_ShouldDeleteAsClaimed ==
    \A path \in childs :
        ShouldDelete(path) <=>
            \/ /\ Len(leafVariants[path]) > 0
               /\ \A i \in NonRunning(path) : leafVariants[path][i].Delete
            \/ /\ Len(leafVariants[path]) = 0
               /\ \A c \in Children(path) : ShouldDelete(c)

\* C10 (amended): an entry is marked shouldDelete iff (i) it has leaf
\* variants, they are not just the one variant of running, and every variant
\* not owned by running has delete set, or (ii) it has no variants and every
\* child is marked shouldDelete.
C10_ShouldDelete ==
    \A path \in childs :
        ShouldDelete(path) <=>
            \/ /\ Len(leafVariants[path]) > 0
               /\ ~OnlyRunning(path)
               /\ \A i \in NonRunning(path) : leafVariants[path][i].Delete
            \/ /\ Len(leafVariants[path]) = 0
               /\ \A c \in Children(path) : ShouldDelete(c)

C10_Witness ==
    /\ Len(leafVariants[Mtu]) = 2
    /\ leafVariants[Mtu][1].owner = RunningIntentName
    /\ ~leafVariants[Mtu][1].Delete
    /\ leafVariants[Mtu][2].Delete
    /\ ShouldDelete(Mtu)
    /\ ShouldDelete(<<"interface">>)
    /\ ShouldDelete(<<>>)

\* the southbound deltas of the tree are computed
DeltasDone == phase \in {"finished", "validated"}

\* C11: on every tree, after FinishInsertionPhase, the paths GetDeletes
\* returns and the paths of the updates GetHighestPrecedence(true) returns
\* are disjoint.
C11_DeletesUpdatesDisjoint ==
    DeltasDone => {u.path : u \in treeResult.updates} \cap treeResult.deletes = {}

C11_Witness ==
    /\ DeltasDone
    /\ Mtu \in treeResult.deletes
    /\ \E u \in treeResult.updates : u.path = Name

\* the variant of the owner of c at c.path holds the value and priority of c
\* and is not marked for deletion: c has been inserted
Inserted(c) ==
    /\ c.path \in childs
    /\ \E i \in DOMAIN leafVariants[c.path] :
           LET le == leafVariants[c.path][i]
           IN  /\ le.owner = c.owner
               /\ le.priority = c.priority
               /\ le.value = c.value
               /\ le.path = c.path
               /\ ~le.Delete

\* C12: inserting an update whose owner, path, value and priority were
\* inserted before changes neither the children nor the variants of any
\* node: no variant is added and no new or updated flag is set.
C12_InsertIdempotent ==
    [][\A c \in Updates, n \in BOOLEAN :
           (AddCacheUpdateRecursive(c, n) /\ Inserted(c))
               => UNCHANGED <<childs, leafVariants>>]_vars

C12_Witness ==
    /\ phase = "insertion"
    /\ steps = 2
    /\ leafVariants[Mtu] =
           <<LeafEntry(ActualOwner, 5, 9000, Mtu, FALSE, TRUE, FALSE)>>
    /\ \A path \in NodePaths \ {Mtu} : leafVariants[path] = <<>>

\* the variant of the owner of c at c.path was loaded from the store with the
\* value of c and is marked for deletion
LoadedAndDeleted(c) ==
    /\ c.path \in childs
    /\ \E i \in DOMAIN leafVariants[c.path] :
           leafVariants[c.path][i] =
               LeafEntry(c.owner, c.priority, c.value, c.path, TRUE, FALSE, FALSE)

\* the leaf at path holds a variant of the request's owner with no flag set
HoldsUnchanged(path) ==
    /\ path \in childs
    /\ \E i \in DOMAIN leafVariants[path] :
           LET le == leafVariants[path][i]
           IN  le.owner = ActualOwner /\ ~le.Delete /\ ~le.IsNew /\ ~le.IsUpdated

\* C13: a variant loaded from the store and marked for deletion that is
\* inserted again with the same value ends with delete, new and updated all
\* false and without a second variant of the owner, and a leaf that holds
\* such a variant of the request's owner is neither among the southbound
\* updates (onlyChanged) nor among the deletes.
C13_UnchangedLeaf ==
    [][/\ \A c \in Updates, n \in BOOLEAN :
              (AddCacheUpdateRecursive(c, n) /\ LoadedAndDeleted(c)) =>
                  /\ Len(leafVariants'[c.path]) = Len(leafVariants[c.path])
                  /\ \E i \in DOMAIN leafVariants'[c.path] :
                         leafVariants'[c.path][i] =
                             LeafEntry(c.owner, c.priority, c.value, c.path,
                                       FALSE, FALSE, FALSE)
       /\ GetDeltas =>
              \A path \in NodePaths :
                  HoldsUnchanged(path) =>
                      /\ path \notin treeResult'.deletes
                      /\ \A u \in treeResult'.updates : u.path # path]_vars

C13_Witness ==
    /\ DeltasDone
    /\ steps = 3
    /\ leafVariants[Hostname] =
           <<LeafEntry(ActualOwner, 5, 1500, Hostname, FALSE, FALSE, FALSE)>>
    /\ \A path \in NodePaths \ {Hostname} : leafVariants[path] = <<>>
    /\ treeResult.updates = {}
    /\ treeResult.deletes = {}

\* the variant GetHighestPrecedence(false) returns on l, <<>> for nil
View(l) ==
    LET i == GetHighestPrecedence(l, FALSE)
    IN  IF i = 0 THEN <<>> ELSE <<l[i]>>

\* the variants of l that are not owned by owner
Without(l, owner) == SelectSeq(l, LAMBDA le : le.owner # owner)

\* C14: on every leaf, once all variants of an owner that was inserted are
\* marked for deletion, GetHighestPrecedence(false) returns what it returns
\* on the variants of the other owners alone.
C14_RemoveRestoresView ==
    \A i \in DOMAIN lv :
        (lv[i].Delete /\ lv[i].owner # RunningIntentName)
            => View(lv) = View(Without(lv, lv[i].owner))

\* FinishInsertionPhase has populated the choice resolvers
Resolved == phase \in {"resolved", "finished", "validated"}

\* the elements of the cases of choice ch at path other than its best case
InactiveElements(path, ch) ==
    UNION {GetSchema(path).ChoiceInfo[ch][k] :
              k \in DOMAIN GetSchema(path).ChoiceInfo[ch]
                     \ {choicesResolvers[path][ch].bestCase}}

\* C15: after FinishInsertionPhase, for every container of the tree with
\* choices, the names of the children the active traversal returns are
\* disjoint from the elements of every case other than the best case, and
\* GetHighestPrecedence holds no update for a leaf in such a case.
C15_InactiveCasesHidden ==
    Resolved =>
        \A path \in childs : \A ch \in DOMAIN GetSchema(path).ChoiceInfo :
            /\ {c[Len(c)] : c \in filterActiveChoiceCaseChilds(path)}
                   \cap InactiveElements(path, ch) = {}
            /\ \A u \in treeResult.updates :
                   ~(/\ Parent(u.path) = path
                     /\ u.path[Len(u.path)] \in InactiveElements(path, ch))

C15_Witness ==
    /\ DeltasDone
    /\ {X, Y} \subseteq childs
    /\ leafVariants[X] # <<>> /\ ~shouldDelete(leafVariants[X])
    /\ choicesResolvers[Cont]["c"].bestCase = "caseB"
    /\ \E u \in treeResult.updates : u.path = Y

\* the choice switch: the intended store holds x of owner A at priority 10,
\* the request of owner B at priority 5 has set y, and the deltas are computed
ChoiceSwitch ==
    /\ DeltasDone
    /\ dsSchema = "choice"
    /\ storeIndex = {IndexEntry(X, "A", 10)}
    /\ Y \in childs
    /\ \E v \in TreeValues :
           leafVariants[Y] = <<LeafEntry(ActualOwner, 5, v, Y, FALSE, TRUE, FALSE)>>

\* C16: on the choice switch the southbound result holds an update for y and
\* a delete whose path addresses element x, the element of the case that was
\* active before (the path of x or of a node above it).
C16_ChoiceSwitch ==
    ChoiceSwitch =>
        /\ \E u \in treeResult.updates : u.path = Y
        /\ \E d \in treeResult.deletes : d = SubSeq(X, 1, Len(d))

\* every key attribute of the list instance at path is a child that reports
\* shouldDelete
KeysDeleted(path) ==
    /\ path \in childs
    /\ \A i \in DOMAIN GetAncestorSchema(path)[1].keys :
           LET c == Append(path, GetAncestorSchema(path)[1].keys[i])
           IN  c \in childs /\ ShouldDelete(c)

\* C17: when every key attribute child of the keyed list instance eth0
\* reports shouldDelete, GetDeletes yields the path of the instance and no
\* path below it.
C17_KeyedListAggregation ==
    (DeltasDone /\ KeysDeleted(Eth0)) =>
        /\ Eth0 \in treeResult.deletes
        /\ \A d \in treeResult.deletes :
               (Len(d) >= Len(Eth0) /\ SubSeq(d, 1, Len(Eth0)) = Eth0) => d = Eth0

C17_Witness ==
    /\ DeltasDone
    /\ KeysDeleted(Eth0)
    /\ Mtu \in childs /\ shouldDelete(leafVariants[Mtu])
    /\ treeResult.deletes = {Eth0}

\* C18: after any sequence of AddCacheUpdateRecursive and MarkOwnerDelete
\* every node holds at most one variant per owner, and every variant of a
\* node has the path of the node.
C18_OneVariantPerOwner ==
    \A path \in NodePaths :
        \A i, j \in DOMAIN leafVariants[path] :
            /\ leafVariants[path][i].owner = leafVariants[path][j].owner => i = j
            /\ leafVariants[path][i].path = path

C18_Witness ==
    /\ phase = "insertion"
    /\ steps = 3
    /\ Len(leafVariants[Mtu]) = 2
    /\ \E i \in DOMAIN leafVariants[Mtu] :
           /\ leafVariants[Mtu][i].owner = ActualOwner
           /\ leafVariants[Mtu][i].IsUpdated

\* C19: a node of the tree with children and with leaf variants has the
\* schema of a presence container, and no insertion ends other than by
\* returning (an error, when it would add a child below leaf variants).
C19_LeafsOnlyBelowPresence ==
    /\ phase # "panic"
    /\ \A path \in childs :
           (Children(path) # {} /\ leafVariants[path] # <<>>)
               => (NodeSchema(path).kind = "container" /\ NodeSchema(path).IsPresence)

\* Navigate as described: "." is skipped, ".." continues at the parent, any
\* other element continues at the active child of that name, and nothing is
\* loadable from the running cache
RECURSIVE NavigateAsClaimed(_, _)
NavigateAsClaimed(s, path) ==
    IF Len(path) = 0 THEN NavEntry(s)
    ELSE IF path[1] = "." THEN NavigateAsClaimed(s, Tail(path))
    ELSE IF path[1] = ".."
        THEN IF s = <<>> THEN NavError
             ELSE NavigateAsClaimed(Parent(s), Tail(path))
    ELSE IF Append(s, path[1]) \in filterActiveChoiceCaseChilds(s)
        THEN NavigateAsClaimed(Append(s, path[1]), Tail(path))
    ELSE NavError

\* C20: Navigate(path) returns the entry itself for the empty path, skips
\* ".", continues at the parent on "..", continues at the active child on any
\* other element, and returns an error only when that child is not in the
\* tree and cannot be loaded.
C20_Navigate ==
    navResult.done =>
        navResult.result = NavigateAsClaimed(navResult.from, navResult.path)

\* the mandatory child attribute is provided for the list instance e: it is
\* an active child of e that is not to be deleted, or its path is in the
\* index of the intended store
Provided(e, attribute) ==
    \/ /\ Append(e, attribute) \in filterActiveChoiceCaseChilds(e)
       /\ ~ShouldDelete(Append(e, attribute))
    \/ PathExists(Append(e, attribute))

\* the mandatory children that are not provided, each with the path of the
\* list instance it is missing in
NotProvided ==
    UNION {{MandatoryError(e, NodeSchema(path).MandatoryChildren[i]) :
               e \in {n \in Instances(path) :
                         ~Provided(n, NodeSchema(path).MandatoryChildren[i])}} :
              <<path, i>> \in
                  {t \in childs \X (1..1) :
                      /\ NodeSchema(t[1]).kind = "container"
                      /\ t[2] \in DOMAIN NodeSchema(t[1]).MandatoryChildren}}

ElementNames(cases) == UNION {cases[k] : k \in DOMAIN cases}

\* C27: FinishInsertionPhase feeds a choice resolver, per element, with the
\* highest precedence of the intended store on the branch rooted at the
\* container's path plus the element's name, the current owner excluded, as old
\* value, and with GetHighestPrecedenceValueOfBranch of the element's child,
\* when it exists, as new value.
C27_ResolverFeed ==
    Resolved =>
        \A path \in childs :
            \A ch \in DOMAIN GetSchema(path).ChoiceInfo :
                \A elem \in ElementNames(GetSchema(path).ChoiceInfo[ch]) :
                    /\ OldValue(path, elem)
                           = GetBranchesHighesPrecedence(Append(path, elem), ActualOwner)
                    /\ Append(path, elem) \in Children(path) =>
                           NewValue(path, elem)
                               = GetHighestPrecedenceValueOfBranch(Append(path, elem))

(***************************************************************************)
(* Claims on the raw intents (SpecRaw)                                     *)
(***************************************************************************)
\* the intents ListIntent returns on the store, none when it fails
Listed(store) ==
    LET rsp == listRawIntent(store)
    IN  IF rsp.err # "nil" THEN {}
        ELSE {rsp.intents[i] : i \in DOMAIN rsp.intents}

\* C22: as long as the last SetIntent of an intent name and a priority that
\* succeeded had updates and no delete flag, ListIntent contains the entry
\* with exactly that name and priority and GetIntent of that name and
\* priority returns that request's name, priority and updates; the names
\* contain "_" and the priorities are negative as well.
C22_RawIntentRoundTrip ==
    \A name \in RawNames, pr \in RawPriorities :
        rawLast[<<name, pr>>] # "none" =>
            /\ [intent |-> name, priority |-> pr] \in Listed(rawStore)
            /\ GetIntent(rawStore, name, pr) =
                   [err |-> "nil",
                    intent |-> [intent |-> name, priority |-> pr,
                                update |-> rawLast[<<name, pr>>]]]

C22_Witness ==
    /\ rawOut.op = "ListIntent"
    /\ rawOut.rsp.err = "nil"
    /\ rawOut.rsp.intents =
           <<[intent |-> <<"a", "_", "5">>, priority |-> 0 - 5],
             [intent |-> <<"a", "_">>, priority |-> 15]>>
    /\ rawLast[<<<<"a", "_", "5">>, 0 - 5>>] = "u1"
    /\ rawLast[<<<<"a", "_">>, 15>>] = "u2"

EOFStep ==
    /\ Len(call'.ops) > Len(call.ops)
    /\ call'.ops[Len(call.ops) + 1].op \in {"GetConfig", "EditConfig", "Commit"}
    /\ ContainsEOF(call'.ops[Len(call.ops) + 1].result)

\* C24: when GetConfig, EditConfig or Commit fails with an error containing
\* "EOF", the call is left with that error as its result, the target is marked
\* not connected and one more goroutine runs reconnect; the call goes on to its
\* return whatever the reconnect does: it does not wait for it.
C24_EOFReconnectsAsync ==
    /\ [][EOFStep =>
              /\ call'.err = "EOF"
              /\ call'.pc \in {"got", "returning"}
              /\ ~ncTarget'.connected
              /\ reconnects'.waiting = reconnects.waiting + 1
              /\ reconnects'.running = reconnects.running]_vars
    /\ [](call.pc = "got" => ENABLED GetReturns)
    /\ [](call.pc = "returning" => ENABLED Return)
    /\ [][call.pc \in {"got", "returning"} => call'.err = call.err]_vars

\* a call has returned the EOF error while the reconnect it started has not
\* taken the lock yet
C24_Witness ==
    /\ call.pc = "idle"
    /\ call.kind \in {"Get", "Set"}
    /\ call.err = "EOF"
    /\ reconnects.waiting > 0
    /\ ~ncTarget.connected

\* the calls of the driver after the first call of op that failed
AfterFailed(op, driverCalls) ==
    LET failed == {i \in 1..Len(driverCalls) :
                      driverCalls[i].op = op /\ driverCalls[i].result # "nil"}
        first == CHOOSE i \in failed : \A j \in failed : i <= j
    IN  IF failed = {} THEN <<>> ELSE SubSeq(driverCalls, first + 1, Len(driverCalls))

\* C25: when the commit fails, the pending changes of the candidate are
\* discarded before Set returns its error: a Discard of the driver follows the
\* failed Commit.
C25_CommitFailureDiscards ==
    (/\ call.kind = "Set"
     /\ call.pc \in {"returning", "idle"}
     /\ \E i \in 1..Len(call.ops) : call.ops[i].op = "Commit" /\ call.ops[i].result # "nil")
        => \E i \in 1..Len(AfterFailed("Commit", call.ops)) :
               AfterFailed("Commit", call.ops)[i].op = "Discard"

\* the calls of EditConfig in the log of the call
EditCalls == {i \in DOMAIN call.ops : call.ops[i].op = "EditConfig"}

\* C31: in Set the edit-config of the deletes comes before that of the updates,
\* each at most once, and a Commit follows successful edit-configs only: no
\* edit-config that failed is followed by a Commit in the same call.
C31_SetOrder ==
    call.kind = "Set" =>
        /\ \A i, j \in EditCalls :
               i < j => call.ops[i].xml = "xmlCBDelete" /\ call.ops[j].xml = "xmlCBAdd"
        /\ \A k \in DOMAIN call.ops :
               call.ops[k].op = "Commit" =>
                   \A i \in 1..(k - 1) :
                       call.ops[i].op = "EditConfig" /\ call.ops[i].result = "nil"
        /\ \A i \in EditCalls :
               call.ops[i].result # "nil" =>
                   \A k \in DOMAIN call.ops : k > i => call.ops[k].op = "Discard"

\* both documents were applied, the deletes first, and the commit was called
C31_Witness ==
    /\ call.kind = "Set"
    /\ Len(call.ops) = 3
    /\ call.ops[1].op = "EditConfig" /\ call.ops[1].xml = "xmlCBDelete"
    /\ call.ops[2].op = "EditConfig" /\ call.ops[2].xml = "xmlCBAdd"
    /\ call.ops[3].op = "Commit"

\* a goroutine leaves the queue of the mutex
LockStep == reconnects'.waiting < reconnects.waiting
\* the target gets a driver from NewScrapligoNetconfTarget
CreateStep == ncTarget'.driver # ncTarget.driver /\ ncTarget'.driver \in {"alive", "nil"}

\* C33: the reconnects of a target are serialized by its mutex: at most one of
\* them is in the loop that creates drivers, it holds the mutex, only it gives
\* the target a driver, and a reconnect that finds the target connected returns
\* without creating one.
C33_ReconnectSerialized ==
    /\ [](reconnects.running <= 1)
    /\ [](ncTarget.m <=> reconnects.running = 1)
    /\ [][CreateStep => reconnects.running = 1 /\ ncTarget.m]_vars
    /\ [][LockStep => ~ncTarget.m]_vars
    /\ [][LockStep /\ ncTarget.connected =>
              /\ ncTarget' = ncTarget
              /\ reconnects'.running = reconnects.running]_vars

\* one reconnect is in the loop while another waits for the mutex
C33_Witness ==
    /\ reconnects.running = 1
    /\ reconnects.waiting > 0
    /\ ncTarget.m

\* no call is in progress and no reconnect is left
Quiescent ==
    /\ call.pc = "idle"
    /\ reconnects.waiting = 0
    /\ reconnects.running = 0

\* C34: once every call and every reconnect has finished, a target that is
\* marked connected holds a driver that has not been closed.
C34_ConnectedDriverOpen ==
    Quiescent /\ ncTarget.connected => ncTarget.driver = "alive"

\* a goroutine of reconnect returns
ReconnectReturns ==
    reconnects'.waiting + reconnects'.running < reconnects.waiting + reconnects.running

\* C35: reconnect retries until a driver is created: when the creation succeeds
\* in the end, a reconnect that waits for the mutex gets it, the one in the
\* loop leaves it with the target connected, and no reconnect returns while the
\* target is not connected.
C35_ReconnectTerminates ==
    /\ [][ReconnectReturns => ncTarget'.connected]_vars
    /\ (reconnects.running = 1) ~> (reconnects.running = 0 /\ ncTarget.connected)
    /\ (reconnects.waiting > 0) ~> (reconnects.waiting = 0 \/ reconnects.running = 1)

\* a reconnect is in the loop and the last creation of a driver has failed
C35_Witness ==
    /\ reconnects.running = 1
    /\ ~reconnects.created
    /\ ncTarget.driver = "nil"

\* the Get of the internalSync in progress has returned a response
GetSucceeded ==
    /\ call.ops = <<DriverCall("GetConfig", "nil")>>
    /\ call.err = "nil"
    /\ call.pc \in {"sync", "returning", "idle"}

\* C36: an internalSync whose Get succeeds sends the Start marker, one Update
\* per notification and the End marker, in this order, and then returns; when
\* the target is not connected, a path does not parse or the Get fails it sends
\* nothing.
C36_SyncMessages ==
    /\ call.kind # "internalSync" => syncCh = <<>>
    /\ call.kind = "internalSync" =>
           /\ ~GetSucceeded => syncCh = <<>>
           /\ GetSucceeded /\ call.pc = "sync" =>
                  /\ Len(syncCh) < NotificationsOfGet + 2
                  /\ syncCh = SubSeq(<<"Start">> \o [i \in 1..NotificationsOfGet |-> "Update"],
                                     1, Len(syncCh))
           /\ GetSucceeded /\ call.pc \in {"returning", "idle"} =>
                  syncCh = <<"Start">> \o [i \in 1..NotificationsOfGet |-> "Update"]
                               \o <<"End">>

\* an internalSync has returned after the End marker
C36_Witness ==
    /\ call.kind = "internalSync"
    /\ call.pc = "idle"
    /\ Len(syncCh) = NotificationsOfGet + 2
    /\ syncCh[Len(syncCh)] = "End"

(***************************************************************************)
(* Claims on the index of the intended store (SpecKeys)                    *)
(***************************************************************************)
\* C26: the index key identifies the path: the entries grouped under one key
\* of the map all have the same path.
C26_IndexKeyIdentifiesPath ==
    \A key \in DOMAIN keysResult :
        \A i, j \in 1..Len(keysResult[key]) :
            keysResult[key][i].path = keysResult[key][j].path

(***************************************************************************)
(* Claims on the intended store of one owner (SpecIntended)                *)
(***************************************************************************)
\* the leaves the intended store holds for the owner, each with its value
OwnerLeaves(store) ==
    {<<u.path, u.value>> : u \in {w \in store : w.owner = ActualOwner}}

RequestLeaves(r) == {<<u.path, u.value>> : u \in r.updates}

AfterSetIntent == intendedPc = "idle" /\ ownerReq # NoOwnerReq

\* C37: after a successful SetIntent(owner, priority, updates) the intended
\* store holds for that owner exactly the leaves of the request: every
\* requested leaf with its requested value and no other leaf of the owner.
C37_IntendedHoldsRequest ==
    AfterSetIntent => OwnerLeaves(intended) = RequestLeaves(ownerReq)

\* the same property for requests that keep the priority of the entries the
\* owner already has in the store
C37_SamePriority ==
    (AfterSetIntent /\ \A u \in intended : u.priority = ownerReq.priority)
        => OwnerLeaves(intended) = RequestLeaves(ownerReq)

(***************************************************************************)
(* Claims on the list of raw intents (SpecRaw)                             *)
(***************************************************************************)
\* C40: after any sequence of successful SetIntent calls, ListIntent
\* contains at most one entry per owner, also when an owner re-submits its
\* intent with a different priority.
C40_OneEntryPerOwner ==
    (rawOut.op = "ListIntent" /\ rawOut.rsp.err = "nil") =>
        \A i, j \in DOMAIN rawOut.rsp.intents :
            rawOut.rsp.intents[i].intent = rawOut.rsp.intents[j].intent => i = j

\* ListIntent has one entry for each pair of owner and priority
C40_OneEntryPerOwnerAndPriority ==
    (rawOut.op = "ListIntent" /\ rawOut.rsp.err = "nil") =>
        \A i, j \in DOMAIN rawOut.rsp.intents :
            rawOut.rsp.intents[i] = rawOut.rsp.intents[j] => i = j

(***************************************************************************)
(* Claims on the deletes of keyed list instances (SpecTree)                *)
(***************************************************************************)
\* no leaf variant of the tree has its delete flag set
NoDeleteFlag ==
    \A path \in childs : \A i \in DOMAIN leafVariants[path] :
        ~leafVariants[path][i].Delete

\* no choice of the tree has changed its best case
NoChoiceChanged == \A path \in childs : ChoiceDeletes(path) = {}

\* C38: if no leaf variant in the tree has its delete flag set and no choice
\* changed its best case, GetDeletes returns the empty list, for every tree
\* shape, including keyed list instances that were inserted without their
\* key attribute leaves.
C38_NoDeleteFlagNoDeletes ==
    (DeltasDone /\ NoDeleteFlag /\ NoChoiceChanged) => treeResult.deletes = {}

\* path lies below the list instance at inst
Below(path, inst) ==
    Len(path) > Len(inst) /\ SubSeq(path, 1, Len(inst)) = inst

\* GetDeletes emits the aggregated delete of the keyed list instance eth0
AggregatedDelete == DeltasDone /\ Eth0 \in treeResult.deletes

\* C39: whenever GetDeletes emits an aggregated delete for a keyed list
\* instance path, GetHighestPrecedence(onlyChanged=true) on the same tree
\* returns no update whose path lies below that instance path.
C39_NoUpdateBelowAggregatedDelete ==
    AggregatedDelete => \A u \in treeResult.updates : ~Below(u.path, Eth0)

=============================================================================
